---- MODULE Spec2Model ----
(***************************************************************************)
(* Compress-It: the video compression engine.                              *)
(*                                                                         *)
(*   web      public/js/video.js   startVideoCompression and its helpers,  *)
(*                                 driving one FFmpeg.wasm instance        *)
(*   desktop  desktop/main.js      the compress-video / cancel-video IPC   *)
(*                                 handlers, and the renderer that calls   *)
(*                                 them (compressVideo, cancelVideo)       *)
(*                                                                         *)
(* The two are separate programs: Init chooses which one runs (app) and   *)
(* what the output format select shows (videoFormat).                      *)
(* Sizes are counted in KiB: every modelled size is a multiple of 1024     *)
(* bytes, so 1 MB = 1024 units and the code's comparisons are unchanged.   *)
(***************************************************************************)
EXTENDS Integers, Sequences, FiniteSets, TLC

\* ------------------------------------------------------------------ bounds
\* invocations of startVideoCompression (web) / compressVideo (desktop)
MaxReq == 2

None == "none"
\* null, where a blob or a file name is expected
NoBlob == [ req |-> 0, att |-> 0, size |-> 0 ]
NoName == <<None, None>>
Reqs == 1..MaxReq

\* The files the user can pick: name |-> size in KiB.
Files == {"small.mp4", "big.mov"}
FileSize(f) == IF f = "small.mp4" THEN 1024 ELSE 8192

\* videoTargetSize / videoCustomSize after parseInt; 0 stands for an empty or
\* non-numeric custom entry (parseInt gives NaN or a value < 1).
TargetInputs == {0, 2}
Formats == {"mp4", "webm"}
\* video.duration as probed, or the 60 s of video.onerror
Durations == {60, 120}

Max(a, b) == IF a >= b THEN a ELSE b

\* JavaScript numbers: a whole number, Infinity or NaN
Num(n) == [ kind |-> "number", value |-> n ]
NaN == [ kind |-> "NaN", value |-> 0 ]
Infinity == [ kind |-> "Infinity", value |-> 0 ]
IsFinite(x) == x.kind = "number"

\* targetSizeMB * 1024 * 1024, in KiB
TargetSizeBytes(targetSizeMB) == targetSizeMB * 1024

\* compressedBlob.size > targetSizeBytes * 1.05
Overshoots(size, targetSizeBytes) == 20 * size > 21 * targetSizeBytes

\* fileSizeMB <= targetSizeMB
AlreadySmall(f, targetSizeMB) == FileSize(f) <= TargetSizeBytes(targetSizeMB)

\* The sizes an encoder run may produce against a target: the largest size
\* within the 5% tolerance and the smallest beyond it.
OutSizes(targetSizeMB) ==
  { (21 * TargetSizeBytes(targetSizeMB)) \div 20,
    (21 * TargetSizeBytes(targetSizeMB)) \div 20 + 1 }

\* const audioBitrate = 128; // kbps
AudioBitrate == 128

\* An estimate without the lower bound of 100 kbps.
EstimateWithoutFloor(targetSizeBytes, duration, audioBitrate) ==
  (targetSizeBytes * 1024 * 8) \div (duration * 1000) - audioBitrate

\* An estimate that takes the size in KB for the total bitrate in kbps.
EstimateFromKilobytes(targetSizeBytes, duration, audioBitrate) ==
  Max(100, (targetSizeBytes * 8) \div duration - audioBitrate)

\* Math.max(100, Math.floor(targetSizeBytes * 8 / duration / 1000 - audioBitrate));
\* audioBitrate is a whole number, so the floor is that of the total bitrate.
EstimateVideoBitrate(targetSizeBytes, duration, audioBitrate) ==
  Max(100, (targetSizeBytes * 1024 * 8) \div (duration * 1000) - audioBitrate)

FirstPassBitrate(targetSizeBytes, duration) ==
  EstimateVideoBitrate(targetSizeBytes, duration, AudioBitrate)

\* A second pass that scales by size / target: the ratio upside down.
SecondPassBitrateInverted(videoBitrate, targetSizeBytes, size) ==
  Max(50, (videoBitrate * size * 9) \div (targetSizeBytes * 10))

\* A second-pass bitrate scaled by the ratio alone.
SecondPassBitrateByRatio(videoBitrate, targetSizeBytes, size) ==
  Max(50, (videoBitrate * targetSizeBytes) \div size)

\* Math.max(50, Math.floor(videoBitrate * ratio * 0.9)), ratio = target / size
SecondPassBitrate(videoBitrate, targetSizeBytes, size) ==
  Max(50, (videoBitrate * targetSizeBytes * 9) \div (size * 10))

VARIABLES
  app,          \* which program runs: "web" or "desktop"
  videoFormat,  \* the output format select (web videoOutputFormat, desktop
                \* videoFormat); the user leaves it as it is found
  videoState,   \* web: the videoState object
  ui,           \* web: the DOM sections and buttons the module shows and hides
  fs,           \* web: the output files in the live FFmpeg instance's filesystem
  loads,        \* web: FFmpeg instances created so far (instance ids are 1..loads)
  req,          \* web: the invocations of startVideoCompression
  state,        \* desktop renderer: the state object
  call,         \* desktop: the invocations of compressVideo and their compress-video requests
  activeProcesses,  \* desktop main: file path |-> the command stored for cancellation
  disk,         \* desktop: what lies at each output path
  est,          \* estimator: the inputs and results of the bitrate calculation
  image,        \* image options: one compression request and what was resolved for it
  batch,        \* server: one POST /api/compress with several files
  store,        \* server: the clock, the cleanup timer and the files in uploads and compressed
  imageState,   \* web image client: the state object, and the last upload and batch of the server
  probe,        \* duration: what the probe reported and the bitrate estimated from it
  cmd,          \* encoder command: the settings of one video request and the command built from them
  bar,          \* progress: the percentage on display during one video request
  job,          \* desktop main: one compress-video request, from the invoke to its answer
  sweep,        \* server: one DELETE /api/cleanup and the files of the two directories
  client,       \* web image client: the file list by its entries, and one handleCompress
  worker        \* FFmpeg worker: the core, the messages received and the responses posted

webVars == <<videoState, ui, fs, loads, req>>
desktopVars == <<state, call, activeProcesses, disk>>
\* what the video programs leave alone
auxVars == <<est, image, batch, store, imageState, probe, cmd, bar, job, sweep, client, worker>>
vars == <<app, videoFormat, videoState, ui, fs, loads, req, state, call, activeProcesses, disk,
         est, image, batch, store, imageState, probe, cmd, bar, job, sweep, client, worker>>

\* ------------------------------------------------------------------- web

\* The locals of one invocation of startVideoCompression, and what it did.
IdleReq ==
  [ pc |-> "idle",            \* the await the invocation is suspended at
    ffmpeg |-> 0,             \* const ffmpeg: the instance loadFFmpeg returned
    targetSizeMB |-> 0,
    outputFormat |-> None,
    source |-> None,          \* videoState.file at the pre-check
    fileData |-> None,        \* the file whose bytes were read
    videoBitrate |-> 0,
    execs |-> 0,              \* ffmpeg.exec calls made
    att1 |-> "none",          \* attempt 1: none/running/succeeded/failed/cancelled
    att2 |-> "none",
    size1 |-> 0,              \* size of the blob read after attempt 1
    outcome |-> "none",       \* already/success/error: the toast the invocation showed
    message |-> "none",       \* error.message of the error toast
    cancelAt |-> "none",      \* the pc at which cancelVideoCompression hit it
    late |-> FALSE ]          \* cancelVideoCompression was called after it returned

InitWeb ==
  /\ videoState = [ file |-> None, compressedBlob |-> NoBlob,
                    compressedFileName |-> NoName, ffmpeg |-> 0,
                    isLoading |-> FALSE, isCompressing |-> FALSE ]
  /\ ui = [ progress |-> FALSE, result |-> FALSE, cancelBtn |-> FALSE,
            compressBtnDisabled |-> FALSE ]
  /\ fs = [ f \in Formats |-> NoBlob ]
  /\ loads = 0
  /\ req = [ r \in Reqs |-> IdleReq ]

\* The request slot the next invocation takes.
NewReq == CHOOSE r \in Reqs : req[r].pc = "idle" /\ \A o \in Reqs : req[o].pc = "idle" => r <= o

\* The awaits on a promise of the FFmpeg instance (rejected by terminate()).
FFAwait == {"write1", "exec1", "readout1", "write2", "exec2", "readout2",
            "cleanup1", "cleanup2"}
InFlight(q) == q.pc \notin {"idle", "done", "retired"}

\* What an invocation did is kept from its return until the next step that
\* is not a cancel; then only the fact that it returned remains.
Retire(q) == IF q.pc = "done" THEN [ IdleReq EXCEPT !.pc = "retired" ] ELSE q
Forget == [ o \in Reqs |-> Retire(req[o]) ]

\* The invocations after a step of r that leaves it as q.
Put(r, q) == [ o \in Reqs |-> IF o = r THEN q ELSE Retire(req[o]) ]

\* catch (error): showToast(error.message, "error"); an attempt whose exec was
\* pending ends with it (how: failed, or cancelled when terminate() rejected it).
\* error.message of what startVideoCompression can catch
InvalidTarget == "Please enter a valid target size"
NotAvailable == "FFmpeg not available"
LoadFailed == "Failed to load video engine"
ReadFailed == "Failed to read file"
TypeError == "Cannot read properties of null"
NotLoaded == "ffmpeg is not loaded"
Terminated == "called FFmpeg.terminate()"
WorkerError == "worker error"

\* An invocation that has returned: its locals are gone, what it did remains.
Returned(q) ==
  [ q EXCEPT !.pc = "done", !.ffmpeg = 0, !.outputFormat = None,
             !.fileData = None, !.videoBitrate = 0 ]

CatchReq(q, how, msg) ==
  [ Returned(q) EXCEPT !.outcome = "error", !.message = msg,
                       !.att1 = IF @ = "running" THEN how ELSE @,
                       !.att2 = IF @ = "running" THEN how ELSE @ ]
\* catch hides the progress section; finally re-enables the button and hides cancel.
CatchUI(u) ==
  [ u EXCEPT !.progress = FALSE, !.compressBtnDisabled = FALSE, !.cancelBtn = FALSE ]
FinallyUI(u) == [ u EXCEPT !.compressBtnDisabled = FALSE, !.cancelBtn = FALSE ]
FinallyState(vs) == [ vs EXCEPT !.isCompressing = FALSE ]

\* showVideoResult() reads videoState.file.size and videoState.compressedBlob.size:
\* a null makes it throw (after it has switched the sections) into catch.
ResultThrows(vs) == vs.file = None \/ vs.compressedBlob = NoBlob
ShowReq(q, vs) ==
  [ Returned(q) EXCEPT !.outcome = IF ResultThrows(vs) THEN "error" ELSE "success",
                       !.message = IF ResultThrows(vs) THEN TypeError ELSE @ ]
ShowUI(u) ==
  [ u EXCEPT !.progress = FALSE, !.result = TRUE, !.compressBtnDisabled = FALSE,
             !.cancelBtn = FALSE ]

\* An exception in the invocation r (its locals q, the state vs, u so far).
Throw(r, q, vs, u, msg) ==
  /\ req' = Put(r, CatchReq(q, "failed", msg))
  /\ videoState' = FinallyState(vs)
  /\ ui' = CatchUI(u)

\* showVideoResult(); showToast(success); finally.
ShowVideoResult(r, q, vs, u) ==
  /\ req' = Put(r, ShowReq(q, vs))
  /\ videoState' = FinallyState(vs)
  /\ ui' = ShowUI(u)

\* Lines 197-230, run in one turn once loadFFmpeg has returned the instance:
\* the settings, the pre-check, and the start of the file read.
Proceed(r, q, vs, u, targetSizeMB, outputFormat) ==
  IF targetSizeMB < 1
  THEN Throw(r, q, vs, u, InvalidTarget)
  ELSE IF vs.file = None
  THEN Throw(r, q, vs, u, TypeError)
  ELSE IF AlreadySmall(vs.file, targetSizeMB)
  THEN /\ req' = Put(r, [ Returned(q) EXCEPT !.outcome = "already",
                                                 !.targetSizeMB = targetSizeMB,
                                                 !.source = vs.file ])
       /\ videoState' = FinallyState(vs)
       /\ ui' = FinallyUI(u)
  ELSE /\ req' = Put(r, [ q EXCEPT !.pc = "read",
                                      !.targetSizeMB = targetSizeMB,
                                      !.outputFormat = outputFormat,
                                      !.source = vs.file,
                                      !.fileData = vs.file ])
       /\ videoState' = vs
       /\ ui' = [ u EXCEPT !.progress = TRUE, !.cancelBtn = TRUE ]

HandleVideoFile(f) ==
  /\ app = "web"
  /\ videoState.file # f
  /\ videoState' = [ videoState EXCEPT !.file = f ]
  /\ req' = Forget
  /\ UNCHANGED <<app, videoFormat, auxVars, ui, fs, loads, desktopVars>>

ClearVideo ==
  /\ app = "web"
  /\ videoState.file # None
  /\ videoState' = [ videoState EXCEPT !.file = None, !.compressedBlob = NoBlob ]
  /\ ui' = [ ui EXCEPT !.result = FALSE, !.progress = FALSE ]
  /\ req' = Forget
  /\ UNCHANGED <<app, videoFormat, auxVars, fs, loads, desktopVars>>

StartVideoCompression ==
  /\ app = "web"
  /\ videoState.file # None /\ ~videoState.isCompressing
  /\ \E r \in Reqs : req[r].pc = "idle"
  /\ LET r == NewReq
         vs == [ videoState EXCEPT !.isCompressing = TRUE ]
         u == [ ui EXCEPT !.compressBtnDisabled = TRUE ]
     IN IF vs.ffmpeg # 0
        THEN \E t \in TargetInputs :
               Proceed(r, [ req[r] EXCEPT !.ffmpeg = vs.ffmpeg ], vs, u, t, videoFormat)
        ELSE IF vs.isLoading
        THEN Throw(r, req[r], vs, u, NotAvailable)
        ELSE /\ req' = Put(r, [ req[r] EXCEPT !.pc = "load" ])
             /\ videoState' = [ vs EXCEPT !.isLoading = TRUE ]
             /\ ui' = [ u EXCEPT !.progress = TRUE ]
  /\ UNCHANGED <<app, videoFormat, auxVars, fs, loads, desktopVars>>

\* ffmpeg.load() resolved: a fresh instance with an empty filesystem.
LoadFFmpegDone(r) ==
  /\ app = "web"
  /\ req[r].pc = "load"
  /\ loads' = loads + 1
  /\ fs' = [ f \in Formats |-> NoBlob ]
  /\ \E t \in TargetInputs :
       Proceed(r, [ req[r] EXCEPT !.ffmpeg = loads + 1 ],
               [ videoState EXCEPT !.ffmpeg = loads + 1, !.isLoading = FALSE ],
               ui, t, videoFormat)
  /\ UNCHANGED <<app, videoFormat, auxVars, desktopVars>>

LoadFFmpegFail(r) ==
  /\ app = "web"
  /\ req[r].pc = "load"
  /\ Throw(r, req[r], [ videoState EXCEPT !.isLoading = FALSE ], ui, LoadFailed)
  /\ UNCHANGED <<app, videoFormat, auxVars, fs, loads, desktopVars>>

\* A call on the instance the invocation holds is sent only while it is the live one.
Live(q) == q.ffmpeg # 0 /\ q.ffmpeg = videoState.ffmpeg

\* readFileAsArrayBuffer resolved; inputName needs videoState.file.name; writeFile.
ReadFileDone(r) ==
  /\ app = "web"
  /\ req[r].pc = "read"
  /\ IF videoState.file = None \/ ~Live(req[r])
     THEN Throw(r, req[r], videoState, ui,
                IF videoState.file = None THEN TypeError ELSE NotLoaded)
     ELSE /\ req' = Put(r, [ req[r] EXCEPT !.pc = "write1" ])
          /\ UNCHANGED <<videoState, ui>>
  /\ UNCHANGED <<app, videoFormat, auxVars, fs, loads, desktopVars>>

ReadFileFail(r) ==
  /\ app = "web"
  /\ req[r].pc = "read"
  /\ Throw(r, req[r], videoState, ui, ReadFailed)
  /\ UNCHANGED <<app, videoFormat, auxVars, fs, loads, desktopVars>>

\* writeFile resolved; getVideoDuration(videoState.file) starts.
WriteFile1Done(r) ==
  /\ app = "web"
  /\ req[r].pc = "write1"
  /\ IF videoState.file = None
     THEN Throw(r, req[r], videoState, ui, TypeError)
     ELSE /\ req' = Put(r, [ req[r] EXCEPT !.pc = "duration" ])
          /\ UNCHANGED <<videoState, ui>>
  /\ UNCHANGED <<app, videoFormat, auxVars, fs, loads, desktopVars>>

\* A first pass whose exec is not awaited: readFile(outputName) is called
\* while the encoder still runs and has written a part of its output.
StartAttempt1NoAwait(r, duration) ==
  /\ req' = Put(r, [ req[r] EXCEPT !.pc = "readout1", !.att1 = "running",
                                    !.execs = @ + 1 ])
  /\ \E size \in OutSizes(req[r].targetSizeMB) :
       fs' = [ fs EXCEPT ![req[r].outputFormat] = [ req |-> r, att |-> 1, size |-> size ] ]
  /\ UNCHANGED <<app, videoFormat, auxVars, videoState, ui, loads, desktopVars>>

\* The duration arrived: bitrate, preset, args, and the first ffmpeg.exec.
StartAttempt1(r, duration) ==
  LET q == [ req[r] EXCEPT
               !.videoBitrate =
                  FirstPassBitrate(TargetSizeBytes(req[r].targetSizeMB), duration),
               !.execs = @ + 1 ]
  IN /\ IF Live(q)
        THEN /\ req' = Put(r, [ q EXCEPT !.pc = "exec1", !.att1 = "running" ])
             /\ UNCHANGED <<videoState, ui>>
        ELSE Throw(r, [ q EXCEPT !.att1 = "failed" ], videoState, ui, NotLoaded)
     /\ UNCHANGED <<app, videoFormat, auxVars, fs, loads, desktopVars>>

GetVideoDurationDone(r) ==
  /\ app = "web"
  /\ req[r].pc = "duration"
  /\ \E d \in Durations : StartAttempt1(r, d)

\* What an encoder run leaves at outputName: req/att name the run that wrote it.
Blob(r, n, size) == [ req |-> r, att |-> n, size |-> size ]

Attempt(q) == IF q.pc = "exec1" THEN 1 ELSE 2

\* The worker's exec returned 0: the output is written, the promise resolves
\* and the controller calls readFile(outputName).
ExecSucceeds(r) ==
  /\ app = "web"
  /\ req[r].pc \in {"exec1", "exec2"}
  /\ \E size \in OutSizes(req[r].targetSizeMB) :
       fs' = [ fs EXCEPT ![req[r].outputFormat] = Blob(r, Attempt(req[r]), size) ]
  /\ req' = Put(r, IF req[r].pc = "exec1"
                   THEN [ req[r] EXCEPT !.pc = "readout1", !.att1 = "succeeded" ]
                   ELSE [ req[r] EXCEPT !.pc = "readout2", !.att2 = "succeeded" ])
  /\ UNCHANGED <<app, videoFormat, auxVars, videoState, ui, loads, desktopVars>>

\* The worker's exec returned a non-zero ffmpeg.ret: the promise resolves all
\* the same (the return value is not looked at); the run wrote nothing, or
\* left a truncated output.
ExecReturnsNonZero(r) ==
  /\ app = "web"
  /\ req[r].pc \in {"exec1", "exec2"}
  /\ \/ UNCHANGED fs
     \/ \E size \in OutSizes(req[r].targetSizeMB) :
          fs' = [ fs EXCEPT ![req[r].outputFormat] =
                    Blob(r, Attempt(req[r]), size) ]
  /\ req' = Put(r, IF req[r].pc = "exec1"
                   THEN [ req[r] EXCEPT !.pc = "readout1", !.att1 = "failed" ]
                   ELSE [ req[r] EXCEPT !.pc = "readout2", !.att2 = "failed" ])
  /\ UNCHANGED <<app, videoFormat, auxVars, videoState, ui, loads, desktopVars>>

\* A size check without the 5% tolerance.
NeedsSecondPassNoTolerance(size, targetSizeMB) == size > TargetSizeBytes(targetSizeMB)

\* if (compressedBlob.size > targetSizeBytes * 1.05): the second pass.
NeedsSecondPass(size, targetSizeMB) == Overshoots(size, TargetSizeBytes(targetSizeMB))

\* readFile(outputName) resolved after attempt 1: the blob, the file name, and
\* the size check that either starts the second pass or goes on to clean up.
ReadOutput1(r) ==
  /\ app = "web"
  /\ req[r].pc = "readout1"
  /\ fs[req[r].outputFormat] # NoBlob
  /\ LET data == fs[req[r].outputFormat]
         q == [ req[r] EXCEPT !.size1 = data.size ]
         vs == [ videoState EXCEPT !.compressedBlob = data ]
     IN IF videoState.file = None
        THEN Throw(r, q, vs, ui, TypeError)
        ELSE /\ videoState' =
                  [ vs EXCEPT !.compressedFileName =
                                 <<videoState.file, req[r].outputFormat>> ]
             /\ UNCHANGED ui
             /\ req' = Put(r,
                  IF NeedsSecondPass(data.size, q.targetSizeMB)
                  THEN [ q EXCEPT !.pc = "write2",
                                  !.videoBitrate =
                                     SecondPassBitrate(@, TargetSizeBytes(q.targetSizeMB),
                                                       data.size) ]
                  ELSE [ q EXCEPT !.pc = "cleanup1" ])
  /\ UNCHANGED <<app, videoFormat, auxVars, fs, loads, desktopVars>>

\* The input is rewritten; the second ffmpeg.exec.
WriteFile2Done(r) ==
  /\ app = "web"
  /\ req[r].pc = "write2"
  /\ req' = Put(r, [ req[r] EXCEPT !.pc = "exec2", !.att2 = "running",
                                    !.execs = @ + 1 ])
  /\ UNCHANGED <<app, videoFormat, auxVars, videoState, ui, fs, loads, desktopVars>>

\* A second pass that repeats itself while its output still overshoots.
ReadOutput2Again(r) ==
  /\ app = "web"
  /\ req[r].pc = "readout2"
  /\ fs[req[r].outputFormat] # NoBlob
  /\ videoState' = [ videoState EXCEPT !.compressedBlob = fs[req[r].outputFormat] ]
  /\ req' = Put(r, [ req[r] EXCEPT !.pc =
         IF Overshoots(fs[req[r].outputFormat].size, TargetSizeBytes(req[r].targetSizeMB))
         THEN "write2" ELSE "cleanup1" ])
  /\ UNCHANGED <<app, videoFormat, auxVars, ui, fs, loads, desktopVars>>

\* readFile(outputName) resolved after attempt 2.
ReadOutput2(r) ==
  /\ app = "web"
  /\ req[r].pc = "readout2"
  /\ fs[req[r].outputFormat] # NoBlob
  /\ videoState' = [ videoState EXCEPT !.compressedBlob = fs[req[r].outputFormat] ]
  /\ req' = Put(r, [ req[r] EXCEPT !.pc = "cleanup1" ])
  /\ UNCHANGED <<app, videoFormat, auxVars, ui, fs, loads, desktopVars>>

\* deleteFile(inputName) resolved.
DeleteInputDone(r) ==
  /\ app = "web"
  /\ req[r].pc = "cleanup1"
  /\ req' = Put(r, [ req[r] EXCEPT !.pc = "cleanup2" ])
  /\ UNCHANGED <<app, videoFormat, auxVars, videoState, ui, fs, loads, desktopVars>>

\* deleteFile(outputName) resolved; showVideoResult().
DeleteOutputDone(r) ==
  /\ app = "web"
  /\ req[r].pc = "cleanup2"
  /\ fs[req[r].outputFormat] # NoBlob
  /\ fs' = [ fs EXCEPT ![req[r].outputFormat] = NoBlob ]
  /\ ShowVideoResult(r, req[r], videoState, ui)
  /\ UNCHANGED <<app, videoFormat, auxVars, loads, desktopVars>>

\* The worker answered a call with an ERROR message (the handler threw): the
\* promise rejects. Inside the clean-up try the error is ignored.
FFmpegRejects(r) ==
  /\ app = "web"
  /\ req[r].pc \in FFAwait
  /\ IF req[r].pc \in {"cleanup1", "cleanup2"}
     THEN ShowVideoResult(r, req[r], videoState, ui)
     ELSE Throw(r, req[r], videoState, ui, WorkerError)
  /\ UNCHANGED <<app, videoFormat, auxVars, fs, loads, desktopVars>>

\* How terminate() leaves an invocation: every pending call on the instance
\* rejects with "called FFmpeg.terminate()", and the continuation (catch, or
\* the clean-up's ignore and then showVideoResult) runs before any other event.
CancelReq(q) ==
  IF ~InFlight(q) THEN [ q EXCEPT !.late = @ \/ q.pc = "done" ]
  ELSE IF Live(q) /\ q.pc \in FFAwait
       THEN LET c == [ q EXCEPT !.cancelAt = q.pc ]
            IN IF q.pc \in {"cleanup1", "cleanup2"}
               THEN ShowReq(c, videoState)
               ELSE CatchReq(c, "cancelled", Terminated)
       ELSE q

\* A cancel guard that looks at the engine only.
CancelGuardEngineOnly == videoState.ffmpeg # 0

\* if (videoState.ffmpeg && videoState.isCompressing)
CancelGuard == videoState.ffmpeg # 0 /\ videoState.isCompressing

CancelVideoCompression ==
  /\ app = "web"
  /\ IF CancelGuard
     THEN LET hit == { r \in Reqs : Live(req[r]) /\ req[r].pc \in FFAwait }
              shown == { r \in hit : req[r].pc \in {"cleanup1", "cleanup2"} }
          IN /\ videoState' = [ videoState EXCEPT !.ffmpeg = 0, !.isCompressing = FALSE ]
             /\ fs' = [ f \in Formats |-> NoBlob ]
             /\ req' = [ r \in Reqs |-> CancelReq(req[r]) ]
             /\ ui' = [ ui EXCEPT !.progress = FALSE,
                                  !.compressBtnDisabled = FALSE,
                                  !.cancelBtn = IF hit = {} THEN @ ELSE FALSE,
                                  !.result = IF shown = {} THEN @ ELSE TRUE ]
     ELSE /\ req' = [ r \in Reqs |->
                       [ req[r] EXCEPT !.late = @ \/ req[r].pc = "done" ] ]
          /\ UNCHANGED <<videoState, fs, ui>>
  /\ UNCHANGED <<app, videoFormat, auxVars, loads, desktopVars>>

\* ---------------------------------------------------------------- desktop

\* Where selectSavePath points: the default name it is given, baseName.ext.
SavePath(ext) == IF ext = "mp4" THEN "out.mp4" ELSE "out.webm"
SavePaths == { SavePath(ext) : ext \in Formats }
NoFile == [ job |-> 0, complete |-> FALSE ]

\* err.message of fluent-ffmpeg, as its words.
NoMessage == << >>
KilledBySIGKILL == <<"ffmpeg", "was", "killed", "with", "signal", "SIGKILL">>
KilledBySIGTERM == <<"ffmpeg", "was", "killed", "with", "signal", "SIGTERM">>
ExitedWithCode == <<"ffmpeg", "exited", "with", "code", "1">>
ProbeError == <<"ffprobe", "exited", "with", "code", "1">>

\* err.message.includes(word)
Includes(message, word) == \E i \in DOMAIN message : message[i] = word

\* One invocation of the renderer's compressVideo with its compress-video request.
IdleCall ==
  [ pc |-> "idle",            \* dialog / ipc: the await it is suspended at
    targetSizeMB |-> 0,
    checked |-> None,         \* state.videoFile at the pre-check
    filePath |-> None,        \* the path handed to compress-video
    outputPath |-> None,
    proc |-> "none",          \* main: probe/running/killed/exited
    runs |-> 0,               \* command.run() calls
    killed |-> FALSE,         \* cancel-video killed the running process
    message |-> NoMessage,    \* the error of an error result
    outcome |-> "none",       \* what the handler resolved and the renderer showed
    cancelAt |-> "none",      \* proc when cancel-video was first called with its path
    late |-> FALSE ]          \* cancelVideo was called after it returned

InitDesktop ==
  /\ state = [ videoFile |-> None, videoOutputPath |-> None, isCompressing |-> FALSE ]
  /\ call = [ k \in Reqs |-> IdleCall ]
  /\ activeProcesses = [ f \in Files |-> 0 ]
  /\ disk = [ p \in SavePaths |-> NoFile ]

NewCall ==
  CHOOSE k \in Reqs : call[k].pc = "idle" /\ \A o \in Reqs : call[o].pc = "idle" => k <= o

RetireCall(c) == IF c.pc = "done" THEN [ IdleCall EXCEPT !.pc = "retired" ] ELSE c
ForgetCalls == [ o \in Reqs |-> RetireCall(call[o]) ]
PutCall(k, c) == [ o \in Reqs |-> IF o = k THEN c ELSE RetireCall(call[o]) ]

AddVideoFile(f) ==
  /\ app = "desktop"
  /\ state.videoFile # f
  /\ state' = [ state EXCEPT !.videoFile = f ]
  /\ call' = ForgetCalls
  /\ UNCHANGED <<app, videoFormat, auxVars, webVars, activeProcesses, disk>>

DesktopClearVideo ==
  /\ app = "desktop"
  /\ state.videoFile # None
  /\ state' = [ state EXCEPT !.videoFile = None, !.videoOutputPath = None ]
  /\ call' = ForgetCalls
  /\ UNCHANGED <<app, videoFormat, auxVars, webVars, activeProcesses, disk>>

\* compressVideo up to its first await: the guard, the target, the pre-check.
CompressVideo ==
  /\ app = "desktop"
  /\ state.videoFile # None /\ ~state.isCompressing
  /\ \E k \in Reqs : call[k].pc = "idle"
  /\ \E t \in TargetInputs :
       call' = PutCall(NewCall,
         IF t < 1
         THEN [ IdleCall EXCEPT !.pc = "done", !.outcome = "invalid" ]
         ELSE IF AlreadySmall(state.videoFile, t)
         THEN [ IdleCall EXCEPT !.pc = "done", !.outcome = "already",
                                !.targetSizeMB = t, !.checked = state.videoFile ]
         ELSE [ IdleCall EXCEPT !.pc = "dialog", !.targetSizeMB = t,
                                !.checked = state.videoFile ])
  /\ UNCHANGED <<app, videoFormat, auxVars, webVars, state, activeProcesses, disk>>

\* selectSavePath resolved: null returns; a path sets isCompressing and invokes
\* compress-video with state.videoFile.path as it is now (a null videoFile
\* throws there, and the invocation ends with the flag left set).
SelectSavePathDone(k) ==
  /\ app = "desktop"
  /\ call[k].pc = "dialog"
  /\ \/ /\ call' = PutCall(k, [ call[k] EXCEPT !.pc = "done", !.outcome = "dismissed" ])
        /\ UNCHANGED state
     \/ \E p \in {SavePath(videoFormat)} :
          /\ state' = [ state EXCEPT !.isCompressing = TRUE, !.videoOutputPath = p ]
          /\ call' = PutCall(k,
               IF state.videoFile = None
               THEN [ IdleCall EXCEPT !.pc = "stuck" ]
               ELSE [ call[k] EXCEPT !.pc = "ipc", !.outputPath = p,
                                     !.filePath = state.videoFile, !.proc = "probe" ])
  /\ UNCHANGED <<app, videoFormat, auxVars, webVars, activeProcesses, disk>>

\* The handler resolves and its reply resumes compressVideo, which clears
\* isCompressing and shows the result.
Resolve(k, c, outcome, message) ==
  /\ call' = PutCall(k, [ c EXCEPT !.pc = "done", !.proc = "none",
                                  !.outcome = outcome, !.message = message ])
  /\ state' = [ state EXCEPT !.isCompressing = FALSE ]

\* ffprobe called back with err.
ProbeFails(k) ==
  /\ app = "desktop"
  /\ call[k].proc = "probe"
  /\ Resolve(k, call[k], "error", ProbeError)
  /\ UNCHANGED <<app, videoFormat, auxVars, webVars, activeProcesses, disk>>

\* ffprobe called back with the metadata: the command is built, stored under
\* filePath and run; the encoder starts writing outputPath.
ProbeDone(k) ==
  /\ app = "desktop"
  /\ call[k].proc = "probe"
  /\ call' = PutCall(k, [ call[k] EXCEPT !.proc = "running", !.runs = @ + 1 ])
  /\ activeProcesses' = [ activeProcesses EXCEPT ![call[k].filePath] = k ]
  /\ disk' = [ disk EXCEPT ![call[k].outputPath] = [ job |-> k, complete |-> FALSE ] ]
  /\ UNCHANGED <<app, videoFormat, auxVars, webVars, state>>

\* The encoder process exits with status 0, its output complete.
ProcessExits(k) ==
  /\ app = "desktop"
  /\ call[k].proc = "running"
  /\ call' = PutCall(k, [ call[k] EXCEPT !.proc = "exited" ])
  /\ disk' = [ disk EXCEPT ![call[k].outputPath] = [ job |-> k, complete |-> TRUE ] ]
  /\ UNCHANGED <<app, videoFormat, auxVars, webVars, state, activeProcesses>>

\* on("end")
OnEnd(k) ==
  /\ app = "desktop"
  /\ call[k].proc = "exited"
  /\ activeProcesses' = [ activeProcesses EXCEPT ![call[k].filePath] = 0 ]
  /\ Resolve(k, call[k], "success", NoMessage)
  /\ UNCHANGED <<app, videoFormat, auxVars, webVars, disk>>

\* err.message.includes("SIGKILL") || err.message.includes("killed")
IsCancelMessage(message) == Includes(message, "SIGKILL") \/ Includes(message, "killed")

\* on("error"): the process was killed by cancel-video, or ended abnormally on
\* its own account (a non-zero exit, a signal from outside the application).
OnError(k) ==
  /\ app = "desktop"
  /\ call[k].proc \in {"running", "killed"}
  /\ \E message \in IF call[k].proc = "killed" THEN {KilledBySIGKILL}
                   ELSE {KilledBySIGKILL, KilledBySIGTERM, ExitedWithCode} :
       IF IsCancelMessage(message)
       THEN Resolve(k, call[k], "cancelled", NoMessage)
       ELSE Resolve(k, call[k], "error", message)
  /\ activeProcesses' = [ activeProcesses EXCEPT ![call[k].filePath] = 0 ]
  /\ UNCHANGED <<app, videoFormat, auxVars, webVars, disk>>

\* ipcMain.handle("cancel-video") for filePath: how it leaves the request c.
CancelVideoHandler(c, k, filePath) ==
  LET seen == IF c.proc \in {"running", "exited"} /\ c.filePath = filePath
                 /\ c.cancelAt = "none"
              THEN [ c EXCEPT !.cancelAt = c.proc ] ELSE c
  IN IF activeProcesses[filePath] = k /\ c.proc = "running"
     THEN [ seen EXCEPT !.proc = "killed", !.killed = TRUE ]
     ELSE seen

\* The renderer's cancelVideo, and the cancel-video handler it invokes.
CancelVideo ==
  /\ app = "desktop"
  /\ IF state.videoFile # None
     THEN /\ call' = [ k \in Reqs |->
                 LET c == CancelVideoHandler(call[k], k, state.videoFile)
                 IN [ c EXCEPT !.late = @ \/ c.pc = "done" ] ]
          /\ activeProcesses' = [ activeProcesses EXCEPT ![state.videoFile] = 0 ]
     ELSE /\ call' = [ k \in Reqs |-> [ call[k] EXCEPT !.late = @ \/ call[k].pc = "done" ] ]
          /\ UNCHANGED activeProcesses
  /\ UNCHANGED <<app, videoFormat, auxVars, webVars, state, disk>>

\* -------------------------------------------------------------- estimator
\* The bitrate calculation of startVideoCompression and compress-video, taken
\* by itself over a wider range of inputs than the programs above pass it.

\* audio budgets 0, 64, ..., 64 * MaxAudioSteps kbps
MaxAudioSteps == 4

EstTargets == {1, 8, 16, 25}           \* targetSizeMB
EstDurations == {30, 60, 120, 600}     \* seconds
EstAudio == { 64 * i : i \in 0..MaxAudioSteps }

\* Sizes of a first output beyond the tolerance: just beyond, 5/4 and twice the target.
EstSizes(targetSizeBytes) ==
  { (21 * targetSizeBytes) \div 20 + 1, (5 * targetSizeBytes) \div 4, 2 * targetSizeBytes }

NoEstimate ==
  [ pc |-> "off", targetSizeMB |-> 0, duration |-> 0, audioBitrate |-> 0,
    videoBitrate |-> 0, size |-> 0, secondBitrate |-> 0 ]

\* an encoder called without an options object
NoOptions == [ o \in {} |-> TRUE ]

\* no image request
NoImage ==
  [ pc |-> "off", path |-> "", file |-> [ mimetype |-> "", ext |-> "" ],
    outputFormat |-> "", quality |-> 0, tier |-> "", did |-> NoOptions ]

\* no batch
NoBatch == [ pc |-> "off", limit |-> 0, files |-> << >>, at |-> << >>, results |-> << >>,
             compressed |-> {}, response |-> [ status |-> 0 ] ]

\* no server
NoStore == [ entry |-> "", now |-> 0, nextCleanup |-> 0, files |-> {} ]

\* the image client as it is loaded: const state = { files: [], results: [], ... }
NoImageState ==
  [ on |-> FALSE, files |-> 0, results |-> 0, toast |-> "", op |-> "",
    uploaded |-> 0, compressed |-> 0, ok |-> TRUE ]

\* no probe
NoProbe ==
  [ pc |-> "off", path |-> "", targetSizeMB |-> 0,
    reported |-> [ what |-> "", seconds |-> 0 ],
    duration |-> [ kind |-> "", value |-> 0 ],
    videoBitrate |-> [ kind |-> "", value |-> 0 ] ]

\* no command
NoCommand ==
  [ pc |-> "off", path |-> "", outputFormat |-> "", tier |-> "", targetSizeMB |-> 0,
    fileSizeMB |-> 0, profile |-> [ preset |-> "", crf |-> 0 ],
    command |-> [ codec |-> "", preset |-> "", crf |-> 0, scale |-> "" ] ]

\* no progress display
NoProgress == [ pc |-> "off", path |-> "", percent |-> 0, seen |-> 0 ]

\* no compress-video request
NoJob == [ pc |-> "off", quality |-> "", outputFormat |-> "", statable |-> TRUE,
           result |-> "none", error |-> << >>, isCompressing |-> FALSE,
           btnDisabled |-> FALSE ]

\* no cleanup request
NoSweep == [ pc |-> "off", fileIds |-> << >>, i |-> 0, before |-> {}, files |-> {},
             cleaned |-> 0, message |-> "" ]

\* the image client not loaded
NoClient == [ pc |-> "off", files |-> << >>, sent |-> << >>, results |-> << >>,
              isCompressing |-> FALSE, btnDisabled |-> FALSE, toast |-> "" ]

\* no worker
NoWorker == [ on |-> FALSE, ffmpeg |-> FALSE, succeeded |-> FALSE, msgs |-> << >>,
              posted |-> << >> ]

\* The programs at rest, for the specifications that run something else.
AtRest ==
  /\ videoFormat = "mp4"
  /\ InitWeb
  /\ InitDesktop

InitEstimator ==
  /\ app = "estimator"
  /\ AtRest
  /\ worker = NoWorker
  /\ client = NoClient
  /\ sweep = NoSweep
  /\ job = NoJob
  /\ bar = NoProgress
  /\ cmd = NoCommand
  /\ probe = NoProbe
  /\ imageState = NoImageState
  /\ store = NoStore
  /\ image = NoImage
  /\ batch = NoBatch
  /\ \E t \in EstTargets, d \in EstDurations, a \in EstAudio :
       est = [ NoEstimate EXCEPT !.pc = "inputs", !.targetSizeMB = t,
                                 !.duration = d, !.audioBitrate = a ]

\* let videoBitrate = Math.max(100, Math.floor(targetTotalBitrate - audioBitrate))
EstimateFirstPass ==
  /\ est.pc = "inputs"
  /\ est' = [ est EXCEPT !.pc = "first",
                         !.videoBitrate =
                            EstimateVideoBitrate(TargetSizeBytes(est.targetSizeMB),
                                                 est.duration, est.audioBitrate) ]
  /\ UNCHANGED <<app, videoFormat, webVars, desktopVars, image, batch, store, imageState, probe, cmd, bar, job, sweep, client, worker>>

\* The same calculation for the next larger audio budget.
RaiseAudioBudget ==
  /\ est.pc = "first"
  /\ est.audioBitrate + 64 \in EstAudio
  /\ est' = [ est EXCEPT !.audioBitrate = @ + 64,
                         !.videoBitrate =
                            EstimateVideoBitrate(TargetSizeBytes(est.targetSizeMB),
                                                 est.duration, est.audioBitrate + 64) ]
  /\ UNCHANGED <<app, videoFormat, webVars, desktopVars, image, batch, store, imageState, probe, cmd, bar, job, sweep, client, worker>>

\* The first output overshot: the second-pass bitrate.
EstimateSecondPass ==
  /\ est.pc = "first"
  /\ \E size \in EstSizes(TargetSizeBytes(est.targetSizeMB)) :
       est' = [ est EXCEPT !.pc = "second", !.size = size,
                           !.secondBitrate =
                              SecondPassBitrate(est.videoBitrate,
                                                TargetSizeBytes(est.targetSizeMB), size) ]
  /\ UNCHANGED <<app, videoFormat, webVars, desktopVars, image, batch, store, imageState, probe, cmd, bar, job, sweep, client, worker>>

NextEstimator == EstimateFirstPass \/ RaiseAudioBudget \/ EstimateSecondPass

SpecEstimator == InitEstimator /\ [][NextEstimator]_vars

\* ---------------------------------------------------------- image options
\* Resolving the output format, the extension and the encoder options of one
\* image, by compressImage behind POST /api/compress and by the compress-image
\* handler of the desktop program; and with them the quality tier of
\* compress-video.

ImageFormats == {"jpeg", "png", "webp", "gif"}
\* settings.outputFormat as a request carries it: absent, "original", a
\* format, or anything else
FormatInputs == {"", "original", "bmp"} \cup ImageFormats
Qualities == 1..100
\* settings.quality as a request carries it
QualityInputs == {-1, 0, 101, 150} \cup Qualities
\* the files the upload filter and the file dialog let through
ImageFiles ==
  { [ mimetype |-> "image/jpeg", ext |-> ".jpg" ],
    [ mimetype |-> "image/png", ext |-> ".png" ],
    [ mimetype |-> "image/gif", ext |-> ".gif" ],
    [ mimetype |-> "image/webp", ext |-> ".webp" ] }
\* options.quality of compress-video: absent, a tier, or anything else
Tiers == {"high", "medium", "low"}
TierInputs == {"", "ultra"} \cup Tiers

\* const mimeToFormat = {...}; mimeToFormat[mimetype] || "jpeg"
mimeToFormat(mimetype) ==
  CASE mimetype = "image/jpeg" -> "jpeg"
    [] mimetype = "image/png" -> "png"
    [] mimetype = "image/gif" -> "gif"
    [] mimetype = "image/webp" -> "webp"
    [] OTHER -> "jpeg"

getOutputFormat(mimetype, outputFormat) ==
  IF outputFormat # "" /\ outputFormat # "original"
    THEN outputFormat
    ELSE mimeToFormat(mimetype)

getExtension(format) ==
  CASE format = "jpeg" -> ".jpg"
    [] format = "png" -> ".png"
    [] format = "gif" -> ".gif"
    [] format = "webp" -> ".webp"
    [] OTHER -> ".jpg"

\* Math.max(16, Math.floor(256 * (quality / 100)))
PaletteSize(quality) == Max(16, (256 * quality) \div 100)

\* Options whose chroma subsampling switches at 90 instead of above it.
OptionsChromaFrom90(format, quality) ==
  IF format = "jpeg"
    THEN [ quality |-> quality, mozjpeg |-> TRUE,
           chromaSubsampling |-> IF quality >= 90 THEN "4:4:4" ELSE "4:2:0" ]
    ELSE [ quality |-> quality ]

\* Options whose near-lossless flag is set from 95 instead of above it.
OptionsNearLosslessFrom95(format, quality) ==
  IF format = "webp"
    THEN [ quality |-> quality, effort |-> 6, smartSubsample |-> TRUE,
           nearLossless |-> quality >= 95 ]
    ELSE [ quality |-> quality ]

getCompressionOptions(format, quality) ==
  CASE format = "jpeg" ->
         [ quality |-> quality, mozjpeg |-> TRUE,
           chromaSubsampling |-> IF quality > 90 THEN "4:4:4" ELSE "4:2:0" ]
    [] format = "png" ->
         [ compressionLevel |-> 9, palette |-> quality < 100, quality |-> quality,
           effort |-> 10, colors |-> PaletteSize(quality) ]
    [] format = "webp" ->
         [ quality |-> quality, effort |-> 6, smartSubsample |-> TRUE,
           nearLossless |-> quality > 95 ]
    [] format = "gif" ->
         [ colors |-> PaletteSize(quality), effort |-> 10 ]
    [] OTHER -> [ quality |-> quality ]

\* The palette size an encoder works with: the colors option, and sharp's
\* default of 256 where the caller passes none.
Colours(options) ==
  IF "colors" \in DOMAIN options THEN options.colors ELSE 256

\* sharp checks the options when pipeline.jpeg/png/webp/gif is called, before
\* anything is encoded: quality is a whole number in 1..100 (0..100 for png)
\* and colors one in 2..256.
QualityError == "Expected integer between 1 and 100 for quality"
ColoursError == "Expected integer between 2 and 256 for colours"
SharpError(encoder, options) ==
  IF /\ encoder \in {"jpeg", "png", "webp"}
     /\ "quality" \in DOMAIN options
     /\ options.quality \notin (IF encoder = "png" THEN 0..100 ELSE 1..100)
    THEN QualityError
  ELSE IF /\ encoder \in {"png", "gif"}
          /\ "colors" \in DOMAIN options
          /\ options.colors \notin 2..256
    THEN ColoursError
  ELSE ""

\* What one call did: the format and extension it resolved, the encoder method
\* it called and with which options, the format of what was written (or
\* "none"), and what it returned.
Encoded(format, extension, encoder, options, written) ==
  [ format |-> format, extension |-> extension, encoder |-> encoder,
    options |-> options, written |-> written, success |-> TRUE, error |-> "" ]
Rejected(format, extension, encoder, options, error) ==
  [ format |-> format, extension |-> extension, encoder |-> encoder,
    options |-> options, written |-> "none", success |-> FALSE, error |-> error ]

\* router.post("/compress"): compressionSettings
compressionSettings(settings) ==
  [ quality |-> IF settings.quality = 0 THEN 80 ELSE settings.quality,
    outputFormat |-> IF settings.outputFormat = "" THEN "original"
                     ELSE settings.outputFormat ]

\* compressImage(file, settings) for a readable image. No case of the switch
\* matches an unknown format: the pipeline goes to toFile as it is, and toFile
\* takes the format from the extension of outputPath.
compressImage(file, settings) ==
  LET format == getOutputFormat(file.mimetype, settings.outputFormat)
      extension == getExtension(format)
      compressionOptions == getCompressionOptions(format, settings.quality)
  IN IF format \in ImageFormats
       THEN IF SharpError(format, compressionOptions) = ""
              THEN Encoded(format, extension, format, compressionOptions, format)
              ELSE Rejected(format, extension, format, compressionOptions,
                            SharpError(format, compressionOptions))
       ELSE Encoded(format, extension, "none", NoOptions, "jpeg")

\* const formatMap = {...}; formatMap[ext] || "jpeg"
formatMap(ext) ==
  CASE ext \in {".jpg", ".jpeg"} -> "jpeg"
    [] ext = ".png" -> "png"
    [] ext = ".gif" -> "gif"
    [] ext = ".webp" -> "webp"
    [] OTHER -> "jpeg"

\* const extMap = {...}; extMap[outputFormat] || ext
extMap(outputFormat, ext) ==
  CASE outputFormat = "jpeg" -> ".jpg"
    [] outputFormat = "png" -> ".png"
    [] outputFormat = "webp" -> ".webp"
    [] outputFormat = "gif" -> ".gif"
    [] OTHER -> ext

\* The options compress-image passes to the encoder it calls.
DesktopOptions(outputFormat, quality) ==
  CASE outputFormat = "jpeg" -> [ quality |-> quality, mozjpeg |-> TRUE ]
    [] outputFormat = "png" -> [ quality |-> quality, compressionLevel |-> 9 ]
    [] outputFormat = "webp" -> [ quality |-> quality ]
    [] OTHER -> NoOptions

\* ipcMain.handle("compress-image") for a readable image. No case of the
\* switch matches an unknown format: toBuffer writes the format of the input.
CompressImageHandler(file, options) ==
  LET requested == IF options.outputFormat = "" THEN "original" ELSE options.outputFormat
      outputFormat == IF requested = "original" THEN formatMap(file.ext) ELSE requested
      quality == IF options.quality = 0 THEN 80 ELSE options.quality
      encoderOptions == DesktopOptions(outputFormat, quality)
      outExt == extMap(outputFormat, file.ext)
  IN IF outputFormat \in ImageFormats
       THEN IF SharpError(outputFormat, encoderOptions) = ""
              THEN Encoded(outputFormat, outExt, outputFormat, encoderOptions, outputFormat)
              ELSE Rejected(outputFormat, outExt, outputFormat, encoderOptions,
                            SharpError(outputFormat, encoderOptions))
       ELSE Encoded(outputFormat, outExt, "none", NoOptions, formatMap(file.ext))

\* const presetMap = {...}
presetMap(tier) ==
  CASE tier = "high" -> [ preset |-> "slow", crf |-> 20 ]
    [] tier = "medium" -> [ preset |-> "medium", crf |-> 23 ]
    [] tier = "low" -> [ preset |-> "fast", crf |-> 28 ]

InitImage ==
  /\ app = "image"
  /\ AtRest
  /\ worker = NoWorker
  /\ client = NoClient
  /\ sweep = NoSweep
  /\ job = NoJob
  /\ bar = NoProgress
  /\ cmd = NoCommand
  /\ probe = NoProbe
  /\ imageState = NoImageState
  /\ store = NoStore
  /\ est = NoEstimate
  /\ batch = NoBatch
  /\ \/ \E path \in {"server", "desktop"}, file \in ImageFiles,
           o \in FormatInputs, q \in QualityInputs :
          image = [ NoImage EXCEPT !.pc = "request", !.path = path, !.file = file,
                                   !.outputFormat = o, !.quality = q ]
     \/ \E tier \in TierInputs :
          image = [ NoImage EXCEPT !.pc = "request", !.path = "video", !.tier = tier ]

\* POST /api/compress with one uploaded file.
PostCompress ==
  /\ image.pc = "request" /\ image.path = "server"
  /\ image' = [ image EXCEPT
       !.pc = "done",
       !.did = compressImage(image.file,
                 compressionSettings([ quality |-> image.quality,
                                       outputFormat |-> image.outputFormat ])) ]
  /\ UNCHANGED <<app, videoFormat, webVars, desktopVars, est, batch, store, imageState, probe, cmd, bar, job, sweep, client, worker>>

\* compress-image invoked for one selected file.
CompressImage ==
  /\ image.pc = "request" /\ image.path = "desktop"
  /\ image' = [ image EXCEPT
       !.pc = "done",
       !.did = CompressImageHandler(image.file,
                 [ quality |-> image.quality, outputFormat |-> image.outputFormat ]) ]
  /\ UNCHANGED <<app, videoFormat, webVars, desktopVars, est, batch, store, imageState, probe, cmd, bar, job, sweep, client, worker>>

\* const { preset, crf } = presetMap[options.quality || "medium"] in the
\* ffprobe callback of compress-video; the encoder is started with them.
ResolvePreset ==
  /\ image.pc = "request" /\ image.path = "video"
  /\ LET tier == IF image.tier = "" THEN "medium" ELSE image.tier
     IN /\ tier \in Tiers
        /\ image' = [ image EXCEPT
             !.pc = "done",
             !.did = Encoded(tier, "", "libx264", presetMap(tier), "video") ]
  /\ UNCHANGED <<app, videoFormat, webVars, desktopVars, est, batch, store, imageState, probe, cmd, bar, job, sweep, client, worker>>

\* presetMap has no such tier: destructuring undefined throws a TypeError in
\* the callback, outside any try; the handler's promise is never resolved.
ResolvePresetThrows ==
  /\ image.pc = "request" /\ image.path = "video"
  /\ (IF image.tier = "" THEN "medium" ELSE image.tier) \notin Tiers
  /\ image' = [ image EXCEPT !.pc = "thrown" ]
  /\ UNCHANGED <<app, videoFormat, webVars, desktopVars, est, batch, store, imageState, probe, cmd, bar, job, sweep, client, worker>>

NextImage == PostCompress \/ CompressImage \/ ResolvePreset \/ ResolvePresetThrows

SpecImage == InitImage /\ [][NextImage]_vars

\* ------------------------------------------------------------------ batch
\* POST /api/compress with several uploaded files: compressImage is called for
\* each of them at once and the answers are collected by Promise.all.

\* files of one request
MaxBatch == 2

\* the uploaded files by id, and their sizes; a request may also name a
\* concurrency limit in its settings, which compressionSettings does not take over
BatchIds == 1..MaxBatch
OriginalSizes == {100, 200}
CompressedSizes == {40, 60}
ENOENT == "ENOENT: no such file or directory"
UnsupportedImage == "Input file contains unsupported image format"

\* compressImage has not answered for this file
NoResult == [ settled |-> FALSE ]

\* catch (error) { throw error }: the call rejects
Rethrow(file, message) ==
  [ settled |-> TRUE, rejected |-> TRUE, error |-> message ]

\* catch (error) { return { success: false, id, originalName, error: error.message } }
CatchResult(file, message) ==
  [ settled |-> TRUE, rejected |-> FALSE, success |-> FALSE, id |-> file.id,
    error |-> message ]

\* return { success: true, id, originalSize, compressedSize, ... }
SuccessResult(file, originalSize, compressedSize) ==
  [ settled |-> TRUE, rejected |-> FALSE, success |-> TRUE, id |-> file.id,
    originalSize |-> originalSize, compressedSize |-> compressedSize,
    savedBytes |-> originalSize - compressedSize ]

\* sum + r[field]: a result without the field adds undefined, and a number
\* plus undefined is NaN, as is NaN plus anything
Plus(sum, r, field) ==
  IF IsFinite(sum) /\ field \in DOMAIN r THEN Num(sum.value + r[field]) ELSE NaN

\* results.reduce((sum, r) => sum + r[field], 0)
Reduce(results, field) ==
  LET sum[n \in 0..Len(results)] ==
        IF n = 0 THEN Num(0) ELSE Plus(sum[n - 1], results[n], field)
  IN sum[Len(results)]

InitBatch ==
  /\ app = "batch"
  /\ AtRest
  /\ worker = NoWorker
  /\ client = NoClient
  /\ sweep = NoSweep
  /\ job = NoJob
  /\ bar = NoProgress
  /\ cmd = NoCommand
  /\ probe = NoProbe
  /\ imageState = NoImageState
  /\ store = NoStore
  /\ est = NoEstimate
  /\ image = NoImage
  /\ \E n \in BatchIds, limit \in BatchIds :
       \E sizes \in [1..n -> OriginalSizes] :
         batch = [ NoBatch EXCEPT
                     !.pc = "running",
                     !.limit = limit,
                     !.files = [ i \in 1..n |-> [ id |-> i, size |-> sizes[i] ] ],
                     !.at = [ i \in 1..n |-> "stat" ],
                     !.results = [ i \in 1..n |-> NoResult ] ]

Running(i) == batch.pc = "running" /\ i \in 1..Len(batch.files)

\* the compressImage calls that have been started and have not answered
InFlight_compressImage ==
  { i \in 1..Len(batch.files) : batch.pc = "running" /\ batch.at[i] # "settled" }

\* await fs.stat(inputPath) answers
StatDone(i) ==
  /\ Running(i) /\ batch.at[i] = "stat"
  /\ batch' = [ batch EXCEPT !.at[i] = "encode" ]
  /\ UNCHANGED <<app, videoFormat, webVars, desktopVars, est, image, store, imageState, probe, cmd, bar, job, sweep, client, worker>>

\* await fs.stat(inputPath) throws: the upload is gone
StatFails(i) ==
  /\ Running(i) /\ batch.at[i] = "stat"
  /\ batch' = [ batch EXCEPT !.at[i] = "settled",
                             !.results[i] = CatchResult(batch.files[i], ENOENT) ]
  /\ UNCHANGED <<app, videoFormat, webVars, desktopVars, est, image, store, imageState, probe, cmd, bar, job, sweep, client, worker>>

\* metadata, toFile and the stat of the output answer
EncodeDone(i) ==
  /\ Running(i) /\ batch.at[i] = "encode"
  /\ \E size \in CompressedSizes :
       batch' = [ batch EXCEPT
                    !.at[i] = "settled",
                    !.compressed = @ \cup { [ id |-> batch.files[i].id, size |-> size ] },
                    !.results[i] = SuccessResult(batch.files[i], batch.files[i].size, size) ]
  /\ UNCHANGED <<app, videoFormat, webVars, desktopVars, est, image, store, imageState, probe, cmd, bar, job, sweep, client, worker>>

\* metadata or toFile throws
EncodeFails(i) ==
  /\ Running(i) /\ batch.at[i] = "encode"
  /\ batch' = [ batch EXCEPT !.at[i] = "settled",
                             !.results[i] = CatchResult(batch.files[i], UnsupportedImage) ]
  /\ UNCHANGED <<app, videoFormat, webVars, desktopVars, est, image, store, imageState, probe, cmd, bar, job, sweep, client, worker>>

\* Promise.all settles: rejected by the first call that rejects, fulfilled
\* with the results in the order of the files once every call has answered;
\* the route answers 500 or the results.
Respond ==
  /\ batch.pc = "running"
  /\ IF \E i \in 1..Len(batch.files) :
          batch.results[i].settled /\ batch.results[i].rejected
       THEN \E i \in 1..Len(batch.files) :
              /\ batch.results[i].settled /\ batch.results[i].rejected
              /\ batch' = [ batch EXCEPT
                              !.pc = "responded",
                              !.response = [ status |-> 500,
                                             error |-> batch.results[i].error ] ]
       ELSE /\ \A i \in 1..Len(batch.files) : batch.results[i].settled
            /\ batch' = [ batch EXCEPT
                            !.pc = "responded",
                            !.response =
                               [ status |-> 200, success |-> TRUE,
                                 results |-> batch.results,
                                 totalOriginalSize |->
                                    Reduce(batch.results, "originalSize"),
                                 totalCompressedSize |->
                                    Reduce(batch.results, "compressedSize") ] ]
  /\ UNCHANGED <<app, videoFormat, webVars, desktopVars, est, image, store, imageState, probe, cmd, bar, job, sweep, client, worker>>

NextBatch ==
  \/ \E i \in BatchIds : StatDone(i)
  \/ \E i \in BatchIds : StatFails(i)
  \/ \E i \in BatchIds : EncodeDone(i)
  \/ \E i \in BatchIds : EncodeFails(i)
  \/ Respond

SpecBatch == InitBatch /\ [][NextBatch]_vars

\* ---------------------------------------------------------------- cleanup
\* The uploads and compressed directories of the server under its two entry
\* points: the server of index.js, which runs cleanupOldFiles at startup and
\* from a timer, and the serverless function of api/index.js.

\* minutes
cleanupInterval == 60
maxFileAge == 30
\* the clock advances by Tick minutes, up to MaxTime
Tick == 15
MaxTime == 180
\* files on disk at once
MaxStored == 2

Dirs == {"uploads", "compressed"}
EntryPoints == {"server", "vercel"}

\* if (now - stats.mtimeMs > maxFileAge)
TooOld(file, now) == now - file.mtime > maxFileAge

InitCleanup ==
  /\ app = "cleanup"
  /\ AtRest
  /\ worker = NoWorker
  /\ client = NoClient
  /\ sweep = NoSweep
  /\ job = NoJob
  /\ bar = NoProgress
  /\ cmd = NoCommand
  /\ probe = NoProbe
  /\ imageState = NoImageState
  /\ est = NoEstimate
  /\ image = NoImage
  /\ batch = NoBatch
  /\ \E entry \in EntryPoints : store = [ NoStore EXCEPT !.entry = entry ]

\* the timer of setInterval, and the call at startup, is due
CleanupDue == store.entry = "server" /\ store.now >= store.nextCleanup

\* Time passes; a timer that is due fires first.
Pass ==
  /\ store.entry \in EntryPoints
  /\ ~CleanupDue
  /\ store.now + Tick <= MaxTime
  /\ store' = [ store EXCEPT !.now = @ + Tick ]
  /\ UNCHANGED <<app, videoFormat, webVars, desktopVars, est, image, batch, imageState, probe, cmd, bar, job, sweep, client, worker>>

\* POST /api/upload stores a file in uploads, POST /api/compress one in compressed.
StoreFile(dir) ==
  /\ store.entry \in EntryPoints
  /\ Cardinality(store.files) < MaxStored
  /\ store' = [ store EXCEPT !.files = @ \cup { [ dir |-> dir, mtime |-> store.now ] } ]
  /\ UNCHANGED <<app, videoFormat, webVars, desktopVars, est, image, batch, imageState, probe, cmd, bar, job, sweep, client, worker>>

\* DELETE /api/cleanup with the id of a file
DeleteCleanup(file) ==
  /\ store.entry \in EntryPoints
  /\ file \in store.files
  /\ store' = [ store EXCEPT !.files = @ \ {file} ]
  /\ UNCHANGED <<app, videoFormat, webVars, desktopVars, est, image, batch, imageState, probe, cmd, bar, job, sweep, client, worker>>

\* cleanupOldFiles(), at startup and every cleanupInterval
cleanupOldFiles ==
  /\ CleanupDue
  /\ store' = [ store EXCEPT
                  !.files = { file \in @ : ~TooOld(file, store.now) },
                  !.nextCleanup = store.now + cleanupInterval ]
  /\ UNCHANGED <<app, videoFormat, webVars, desktopVars, est, image, batch, imageState, probe, cmd, bar, job, sweep, client, worker>>

NextCleanup ==
  \/ Pass
  \/ \E dir \in Dirs : StoreFile(dir)
  \/ \E file \in store.files : DeleteCleanup(file)
  \/ cleanupOldFiles

SpecCleanup == InitCleanup /\ [][NextCleanup]_vars

\* ------------------------------------------------------------ image files
\* The file list of the web image client (state.files, by its length) and
\* the two requests of the server it feeds: POST /api/upload and
\* POST /api/compress. The requests can also come from any other client.

\* if (state.files.length + validFiles.length > 20); limits: { files: 20 }
MaxFiles == 20

\* numbers of valid files in one selection, and of files in one request
SelectSizes == {0, 1, 7, MaxFiles, MaxFiles + 1}
MaxFilesToast == "Maximum 20 files allowed"
AddedToast == "file(s) added"
InvalidToast == "is not a supported image type"

InitFiles ==
  /\ app = "files"
  /\ AtRest
  /\ worker = NoWorker
  /\ client = NoClient
  /\ sweep = NoSweep
  /\ job = NoJob
  /\ bar = NoProgress
  /\ cmd = NoCommand
  /\ probe = NoProbe
  /\ est = NoEstimate
  /\ image = NoImage
  /\ batch = NoBatch
  /\ store = NoStore
  /\ imageState = [ NoImageState EXCEPT !.on = TRUE ]

\* upload.array("images", 20) with limits.files = 20: the number of files
\* that reach the route, and whether the request is answered with success
Upload(n) ==
  IF n > MaxFiles \/ n = 0 THEN [ ok |-> FALSE, files |-> 0 ]
  ELSE [ ok |-> TRUE, files |-> n ]

\* router.post("/compress") with n entries in files: the number of
\* compressImage calls it makes
CompressCalls(n) == n

\* handleFiles(fileList) with so many valid files, and perhaps invalid ones
handleFiles(valid, invalid) ==
  /\ imageState.on
  /\ imageState' =
       IF valid = 0
         THEN [ imageState EXCEPT !.op = "handleFiles",
                                  !.toast = IF invalid THEN InvalidToast ELSE @ ]
       ELSE IF imageState.files + valid > MaxFiles
         THEN [ imageState EXCEPT !.op = "handleFiles", !.toast = MaxFilesToast ]
       ELSE [ imageState EXCEPT !.op = "handleFiles", !.toast = AddedToast,
                                !.files = @ + valid ]
  /\ UNCHANGED <<app, videoFormat, webVars, desktopVars, est, image, batch, store, probe, cmd, bar, job, sweep, client, worker>>

\* removeFile(index), from the button of an entry
removeFile ==
  /\ imageState.on
  /\ imageState.files > 0
  /\ imageState' = [ imageState EXCEPT !.op = "removeFile", !.files = @ - 1 ]
  /\ UNCHANGED <<app, videoFormat, webVars, desktopVars, est, image, batch, store, probe, cmd, bar, job, sweep, client, worker>>

clearAllFiles ==
  /\ imageState.on
  /\ imageState' = [ imageState EXCEPT !.op = "clearAllFiles", !.files = 0, !.results = 0 ]
  /\ UNCHANGED <<app, videoFormat, webVars, desktopVars, est, image, batch, store, probe, cmd, bar, job, sweep, client, worker>>

\* handleCompress(): uploadFiles() sends state.files, compressFiles sends the
\* files the upload answered with, the results are stored.
handleCompress ==
  /\ imageState.on
  /\ imageState.files > 0
  /\ LET uploadResult == Upload(imageState.files)
     IN imageState' =
          IF uploadResult.ok
            THEN [ imageState EXCEPT
                     !.op = "handleCompress", !.toast = "Compression complete!",
                     !.uploaded = uploadResult.files,
                     !.compressed = CompressCalls(uploadResult.files),
                     !.results = CompressCalls(uploadResult.files), !.ok = TRUE ]
            ELSE [ imageState EXCEPT
                     !.op = "handleCompress", !.toast = "Upload failed",
                     !.uploaded = 0, !.ok = FALSE ]
  /\ UNCHANGED <<app, videoFormat, webVars, desktopVars, est, image, batch, store, probe, cmd, bar, job, sweep, client, worker>>

\* POST /api/upload from any client, with n files
PostUpload(n) ==
  /\ imageState.on
  /\ imageState' = [ imageState EXCEPT !.op = "upload", !.uploaded = Upload(n).files,
                                       !.ok = Upload(n).ok ]
  /\ UNCHANGED <<app, videoFormat, webVars, desktopVars, est, image, batch, store, probe, cmd, bar, job, sweep, client, worker>>

\* POST /api/compress from any client, with n entries in files
PostCompressBatch(n) ==
  /\ imageState.on
  /\ imageState' = [ imageState EXCEPT !.op = "compress", !.compressed = CompressCalls(n),
                                       !.ok = n > 0 ]
  /\ UNCHANGED <<app, videoFormat, webVars, desktopVars, est, image, batch, store, probe, cmd, bar, job, sweep, client, worker>>

NextFiles ==
  \/ \E valid \in SelectSizes, invalid \in BOOLEAN : handleFiles(valid, invalid)
  \/ removeFile
  \/ clearAllFiles
  \/ handleCompress
  \/ \E n \in SelectSizes : PostUpload(n)
  \/ \E n \in SelectSizes : PostCompressBatch(n)

SpecFiles == InitFiles /\ [][NextFiles]_vars

\* --------------------------------------------------------------- duration
\* The duration the bitrate calculation divides by: video.duration as
\* getVideoDuration resolves it on the web, metadata.format.duration as
\* ffprobe reports it on the desktop. A JavaScript number is written as a
\* whole number, Infinity or NaN.

\* What the source can report: the loading of the metadata fails ("error"),
\* the duration is not known ("N/A": format.duration of a stream without
\* one), it is unbounded, or it is a number of seconds, which may be zero.
Reported(what, seconds) == [ what |-> what, seconds |-> seconds ]
\* A media element that has loaded its metadata knows a duration, which is
\* Infinity for a file without one; ffprobe prints N/A for such a file.
ReportedDurations(path) ==
  { Reported(what, 0) : what \in {"error", IF path = "web" THEN "Infinity" ELSE "N/A"} }
    \cup { Reported("seconds", d) : d \in {0} \cup EstDurations }

\* Math.max(100, Math.floor(targetSizeBytes * 8 / duration / 1000 - audioBitrate))
\* in JavaScript arithmetic: x / 0 is Infinity, x / Infinity is 0, and
\* anything with NaN is NaN, also in Math.max.
VideoBitrateOf(targetSizeBytes, duration) ==
  IF duration.kind = "Infinity" THEN Num(Max(100, 0 - AudioBitrate))
  ELSE IF duration.kind = "NaN" THEN NaN
  ELSE IF duration.value = 0 THEN Infinity
  ELSE Num(EstimateVideoBitrate(targetSizeBytes, duration.value, AudioBitrate))

\* The number a reported duration is in the calculation: "N/A" is no number.
ToNumber(reported) ==
  CASE reported.what = "seconds" -> Num(reported.seconds)
    [] reported.what = "Infinity" -> Infinity
    [] OTHER -> NaN

\* video.onerror = () => resolve(60); onloadedmetadata resolves video.duration
getVideoDuration(reported) ==
  IF reported.what = "error" THEN Num(60) ELSE ToNumber(reported)

InitProbe ==
  /\ app = "duration"
  /\ AtRest
  /\ worker = NoWorker
  /\ client = NoClient
  /\ sweep = NoSweep
  /\ job = NoJob
  /\ bar = NoProgress
  /\ cmd = NoCommand
  /\ est = NoEstimate
  /\ image = NoImage
  /\ batch = NoBatch
  /\ store = NoStore
  /\ imageState = NoImageState
  /\ \E path \in {"web", "desktop"}, t \in EstTargets :
     \E reported \in ReportedDurations(path) :
       probe = [ NoProbe EXCEPT !.pc = "probing", !.path = path,
                                !.targetSizeMB = t, !.reported = reported ]

\* const duration = await getVideoDuration(videoState.file)
WebDuration ==
  /\ probe.pc = "probing" /\ probe.path = "web"
  /\ probe' = [ probe EXCEPT !.pc = "duration",
                             !.duration = getVideoDuration(probe.reported) ]
  /\ UNCHANGED <<app, videoFormat, webVars, desktopVars, est, image, batch, store, imageState, cmd, bar, job, sweep, client, worker>>

\* ffprobe called back with err: the handler answers, nothing is estimated
DesktopProbeError ==
  /\ probe.pc = "probing" /\ probe.path = "desktop"
  /\ probe.reported.what = "error"
  /\ probe' = [ probe EXCEPT !.pc = "failed" ]
  /\ UNCHANGED <<app, videoFormat, webVars, desktopVars, est, image, batch, store, imageState, cmd, bar, job, sweep, client, worker>>

\* const duration = metadata.format.duration
DesktopDuration ==
  /\ probe.pc = "probing" /\ probe.path = "desktop"
  /\ probe.reported.what # "error"
  /\ probe' = [ probe EXCEPT !.pc = "duration", !.duration = ToNumber(probe.reported) ]
  /\ UNCHANGED <<app, videoFormat, webVars, desktopVars, est, image, batch, store, imageState, cmd, bar, job, sweep, client, worker>>

\* the bitrate calculation; the encoder is given `${videoBitrate}k`
EstimateFromDuration ==
  /\ probe.pc = "duration"
  /\ probe' = [ probe EXCEPT
                  !.pc = "estimated",
                  !.videoBitrate = VideoBitrateOf(TargetSizeBytes(probe.targetSizeMB),
                                                  probe.duration) ]
  /\ UNCHANGED <<app, videoFormat, webVars, desktopVars, est, image, batch, store, imageState, cmd, bar, job, sweep, client, worker>>

NextProbe == WebDuration \/ DesktopProbeError \/ DesktopDuration \/ EstimateFromDuration

SpecProbe == InitProbe /\ [][NextProbe]_vars

\* ---------------------------------------------------------------- command
\* The encoder command of the first attempt as startVideoCompression (args)
\* and compress-video (command) build it from the container, the quality
\* tier and the sizes.

CmdTargets == {3, 7, 8, 16}      \* targetSizeMB
CmdSources == {20, 50, 100}      \* size of the source in MB

\* startVideoCompression: const presetMap = {...}
WebPresetMap(tier) ==
  CASE tier = "high" -> [ preset |-> "slow", crf |-> 23 ]
    [] tier = "medium" -> [ preset |-> "medium", crf |-> 28 ]
    [] tier = "low" -> [ preset |-> "fast", crf |-> 32 ]

\* compressionRatio = targetSizeMB / fileSizeMB; < 0.15: 480, < 0.35: 720
ScaleFilter(targetSizeMB, fileSizeMB) ==
  IF 100 * targetSizeMB < 15 * fileSizeMB THEN "scale=-2:480"
  ELSE IF 100 * targetSizeMB < 35 * fileSizeMB THEN "scale=-2:720"
  ELSE "none"

\* args of the first exec: libx264 with -preset and -crf, or libvpx-vp9 with
\* -crf; no -vf among them
WebArgs(outputFormat, profile) ==
  IF outputFormat = "mp4"
    THEN [ codec |-> "libx264", preset |-> profile.preset, crf |-> profile.crf,
           scale |-> "none" ]
    ELSE [ codec |-> "libvpx-vp9", preset |-> "", crf |-> profile.crf, scale |-> "none" ]

\* command as it is when command.run() is called: the libx264 command with
\* its filter, or for webm the libvpx-vp9 command built anew with its filter
DesktopCommand(outputFormat, profile, scaleFilter) ==
  IF outputFormat = "webm"
    THEN [ codec |-> "libvpx-vp9", preset |-> "", crf |-> profile.crf,
           scale |-> scaleFilter ]
    ELSE [ codec |-> "libx264", preset |-> profile.preset, crf |-> profile.crf,
           scale |-> scaleFilter ]

InitCommand ==
  /\ app = "command"
  /\ AtRest
  /\ worker = NoWorker
  /\ client = NoClient
  /\ sweep = NoSweep
  /\ job = NoJob
  /\ bar = NoProgress
  /\ est = NoEstimate
  /\ image = NoImage
  /\ batch = NoBatch
  /\ store = NoStore
  /\ imageState = NoImageState
  /\ probe = NoProbe
  /\ \E path \in {"web", "desktop"}, o \in Formats, tier \in Tiers,
        t \in CmdTargets, s \in CmdSources :
       cmd = [ NoCommand EXCEPT !.pc = "settings", !.path = path, !.outputFormat = o,
                                !.tier = tier, !.targetSizeMB = t, !.fileSizeMB = s ]

\* startVideoCompression: presetMap[qualityPreset] and args
BuildWebArgs ==
  /\ cmd.pc = "settings" /\ cmd.path = "web"
  /\ cmd' = [ cmd EXCEPT !.pc = "built",
                         !.profile = WebPresetMap(cmd.tier),
                         !.command = WebArgs(cmd.outputFormat, WebPresetMap(cmd.tier)) ]
  /\ UNCHANGED <<app, videoFormat, webVars, desktopVars, est, image, batch, store, imageState, probe, bar, job, sweep, client, worker>>

\* compress-video: presetMap[options.quality], scaleFilter and command
BuildDesktopCommand ==
  /\ cmd.pc = "settings" /\ cmd.path = "desktop"
  /\ cmd' = [ cmd EXCEPT !.pc = "built",
                         !.profile = presetMap(cmd.tier),
                         !.command = DesktopCommand(cmd.outputFormat, presetMap(cmd.tier),
                                        ScaleFilter(cmd.targetSizeMB, cmd.fileSizeMB)) ]
  /\ UNCHANGED <<app, videoFormat, webVars, desktopVars, est, image, batch, store, imageState, probe, bar, job, sweep, client, worker>>

NextCommand == BuildWebArgs \/ BuildDesktopCommand

SpecCommand == InitCommand /\ [][NextCommand]_vars

\* --------------------------------------------------------------- progress
\* The percentage the user sees during one video request: the "progress"
\* listener of the web controller with the second pass's reset, and the
\* video-progress listener of the desktop renderer.

\* progress events carry 0, 10, ..., 10 * ProgressSteps percent
ProgressSteps == 10
ProgressValues == { 10 * i : i \in 0..ProgressSteps }

\* Math.min(Math.round(progress * 100), 99)
Percent(value) == IF value < 99 THEN value ELSE 99

InitProgress ==
  /\ app = "progress"
  /\ AtRest
  /\ worker = NoWorker
  /\ client = NoClient
  /\ sweep = NoSweep
  /\ job = NoJob
  /\ est = NoEstimate
  /\ image = NoImage
  /\ batch = NoBatch
  /\ store = NoStore
  /\ imageState = NoImageState
  /\ probe = NoProbe
  /\ cmd = NoCommand
  /\ \E path \in {"web", "desktop"} :
       bar = [ NoProgress EXCEPT !.pc = "attempt1", !.path = path ]

\* What is shown once a value is delivered: the value itself.
Show(value) ==
  [ bar EXCEPT !.percent = value, !.seen = Max(bar.seen, value) ]

\* ffmpeg.on("progress") during an exec: updateVideoProgress(percent, ...)
WebProgress(value) ==
  /\ bar.path = "web" /\ bar.pc \in {"attempt1", "attempt2"}
  /\ bar' = Show(Percent(value))
  /\ UNCHANGED <<app, videoFormat, webVars, desktopVars, est, image, batch, store, imageState, probe, cmd, job, sweep, client, worker>>

\* the first output overshoots: updateVideoProgress(50, "Optimizing further...")
\* and the second exec
WebSecondPass ==
  /\ bar.path = "web" /\ bar.pc = "attempt1"
  /\ bar' = [ Show(50) EXCEPT !.pc = "attempt2" ]
  /\ UNCHANGED <<app, videoFormat, webVars, desktopVars, est, image, batch, store, imageState, probe, cmd, job, sweep, client, worker>>

\* command.on("progress") sends video-progress with the capped percent; the
\* renderer's listener writes data.percent
DesktopProgress(value) ==
  /\ bar.path = "desktop" /\ bar.pc = "attempt1"
  /\ bar' = Show(Percent(value))
  /\ UNCHANGED <<app, videoFormat, webVars, desktopVars, est, image, batch, store, imageState, probe, cmd, job, sweep, client, worker>>

NextProgress ==
  \/ \E value \in ProgressValues : WebProgress(value)
  \/ WebSecondPass
  \/ \E value \in ProgressValues : DesktopProgress(value)

SpecProgress == InitProgress /\ [][NextProgress]_vars

\* ---------------------------------------------------------------- request
\* One compress-video request taken by itself, over every value of its
\* options: from the renderer's invoke (isCompressing set, the button
\* disabled) through the ffprobe callback and the encoder's end or error to
\* the answer that resumes compressVideo.

InitRequest ==
  /\ app = "request"
  /\ AtRest
  /\ worker = NoWorker
  /\ client = NoClient
  /\ sweep = NoSweep
  /\ est = NoEstimate
  /\ image = NoImage
  /\ batch = NoBatch
  /\ store = NoStore
  /\ imageState = NoImageState
  /\ probe = NoProbe
  /\ cmd = NoCommand
  /\ bar = NoProgress
  /\ \E quality \in TierInputs, outputFormat \in Formats, statable \in BOOLEAN :
       job = [ NoJob EXCEPT !.pc = "probe", !.quality = quality,
                            !.outputFormat = outputFormat, !.statable = statable,
                            !.isCompressing = TRUE, !.btnDisabled = TRUE ]

\* resolve(value) in the handler, and compressVideo resumed with it:
\* state.isCompressing = false; btn.disabled = false.
Answer(kind, message) ==
  [ job EXCEPT !.pc = "answered", !.result = kind, !.error = message,
               !.isCompressing = FALSE, !.btnDisabled = FALSE ]

\* An exception in a callback of the handler: nothing catches it and resolve
\* is not called.
Uncaught == [ job EXCEPT !.pc = "thrown" ]

\* ffmpeg.ffprobe(filePath, (err, metadata) => ...) with err
ProbeCallbackError ==
  /\ job.pc = "probe"
  /\ job' = Answer("error", ProbeError)
  /\ UNCHANGED <<app, videoFormat, webVars, desktopVars, est, image, batch, store, imageState, probe, cmd, bar, sweep, client, worker>>

\* the callback with metadata: const { preset, crf } = presetMap[options.quality
\* || "medium"] throws for a tier the map does not have; else command.run()
ProbeCallback ==
  /\ job.pc = "probe"
  /\ LET tier == IF job.quality = "" THEN "medium" ELSE job.quality
     IN job' = IF tier \in Tiers THEN [ job EXCEPT !.pc = "running" ] ELSE Uncaught
  /\ UNCHANGED <<app, videoFormat, webVars, desktopVars, est, image, batch, store, imageState, probe, cmd, bar, sweep, client, worker>>

\* cancel-video: process.kill("SIGKILL")
KillProcess ==
  /\ job.pc = "running"
  /\ job' = [ job EXCEPT !.pc = "killed" ]
  /\ UNCHANGED <<app, videoFormat, webVars, desktopVars, est, image, batch, store, imageState, probe, cmd, bar, sweep, client, worker>>

\* on("end"): fs.statSync(outputPath) throws when the file cannot be stat'ed
EncoderEnd ==
  /\ job.pc = "running"
  /\ job' = IF job.statable THEN Answer("success", NoMessage) ELSE Uncaught
  /\ UNCHANGED <<app, videoFormat, webVars, desktopVars, est, image, batch, store, imageState, probe, cmd, bar, sweep, client, worker>>

\* on("error")
EncoderError ==
  /\ job.pc \in {"running", "killed"}
  /\ \E message \in IF job.pc = "killed" THEN {KilledBySIGKILL}
                   ELSE {KilledBySIGTERM, ExitedWithCode} :
       job' = IF IsCancelMessage(message) THEN Answer("cancelled", NoMessage)
              ELSE Answer("error", message)
  /\ UNCHANGED <<app, videoFormat, webVars, desktopVars, est, image, batch, store, imageState, probe, cmd, bar, sweep, client, worker>>

\* The probe calls back, one way or the other.
ProbeCallsBack == ProbeCallbackError \/ ProbeCallback

\* The encoder process ends, one way or the other.
EncoderCallsBack == EncoderEnd \/ EncoderError

NextRequest ==
  \/ ProbeCallbackError
  \/ ProbeCallback
  \/ KillProcess
  \/ EncoderEnd
  \/ EncoderError

SpecRequest ==
  /\ InitRequest /\ [][NextRequest]_vars
  /\ WF_vars(ProbeCallsBack) /\ WF_vars(EncoderCallsBack)

\* ---------------------------------------------------------- cleanup route
\* DELETE /api/cleanup: for each id of the list, every file of uploads and of
\* compressed whose name starts with the id is unlinked.

\* ids in one request
MaxIds == 2

\* Identifiers and file names are strings, written as their characters.
\* uuidv4() gives ids of one length; a client can send any string.
StoredIds == { <<"a", "a">>, <<"a", "b">>, <<"b", "a">> }
SentIds == StoredIds \cup { << >>, <<"a">> }
IdLists == UNION { [1..n -> SentIds] : n \in 0..MaxIds }

\* `${uniqueId}${ext}` in uploads, `${file.id}-compressed${extension}` in compressed
FileName(file) == file.id \o (IF file.dir = "uploads" THEN <<".">> ELSE <<"-">>)

\* file.startsWith(id)
StartsWith(name, id) ==
  Len(id) <= Len(name) /\ \A n \in 1..Len(id) : name[n] = id[n]

StoredFiles == [ dir : Dirs, id : StoredIds ]

InitSweep ==
  /\ app = "sweep"
  /\ AtRest
  /\ worker = NoWorker
  /\ client = NoClient
  /\ est = NoEstimate
  /\ image = NoImage
  /\ batch = NoBatch
  /\ store = NoStore
  /\ imageState = NoImageState
  /\ probe = NoProbe
  /\ cmd = NoCommand
  /\ bar = NoProgress
  /\ job = NoJob
  /\ \E fileIds \in IdLists, files \in SUBSET StoredFiles :
       sweep = [ NoSweep EXCEPT !.pc = "request", !.fileIds = fileIds,
                                !.before = files, !.files = files ]

\* if (!fileIds || fileIds.length === 0) return res.json(... "Nothing to clean up")
NothingToCleanUp ==
  /\ sweep.pc = "request"
  /\ Len(sweep.fileIds) = 0
  /\ sweep' = [ sweep EXCEPT !.pc = "responded", !.message = "Nothing to clean up" ]
  /\ UNCHANGED <<app, videoFormat, webVars, desktopVars, est, image, batch, store, imageState, probe, cmd, bar, job, client, worker>>

\* One round of for (const id of fileIds): both directories are read and the
\* files whose name starts with id are unlinked and counted.
CleanupId ==
  /\ sweep.pc \in {"request", "loop"}
  /\ sweep.i < Len(sweep.fileIds)
  /\ LET id == sweep.fileIds[sweep.i + 1]
         hit == { file \in sweep.files : StartsWith(FileName(file), id) }
     IN sweep' = [ sweep EXCEPT !.pc = "loop", !.i = @ + 1,
                                !.files = @ \ hit,
                                !.cleaned = @ + Cardinality(hit) ]
  /\ UNCHANGED <<app, videoFormat, webVars, desktopVars, est, image, batch, store, imageState, probe, cmd, bar, job, client, worker>>

\* res.json({ success: true, message: `Cleaned up ${cleaned} file(s)` })
CleanupResponds ==
  /\ sweep.pc = "loop"
  /\ sweep.i = Len(sweep.fileIds)
  /\ sweep' = [ sweep EXCEPT !.pc = "responded", !.message = "Cleaned up" ]
  /\ UNCHANGED <<app, videoFormat, webVars, desktopVars, est, image, batch, store, imageState, probe, cmd, bar, job, client, worker>>

NextSweep == NothingToCleanUp \/ CleanupId \/ CleanupResponds

SpecSweep == InitSweep /\ [][NextSweep]_vars

\* ----------------------------------------------------------- image results
\* handleCompress of the web image client with the file list by its entries:
\* the list can be changed while the upload and the compression are awaited.

\* files the user can select; an entry's thumbnail is that of its file
MaxListed == 3
Images == 1..MaxListed

UndefinedThumbnail == "Cannot read properties of undefined (reading 'thumbnail')"
UploadFailedToast == "Upload failed"
CompressionFailedToast == "Compression failed"
CompleteToast == "Compression complete!"

InitClient ==
  /\ app = "client"
  /\ AtRest
  /\ worker = NoWorker
  /\ est = NoEstimate
  /\ image = NoImage
  /\ batch = NoBatch
  /\ store = NoStore
  /\ imageState = NoImageState
  /\ probe = NoProbe
  /\ cmd = NoCommand
  /\ bar = NoProgress
  /\ job = NoJob
  /\ sweep = NoSweep
  /\ client = [ NoClient EXCEPT !.pc = "idle" ]

Listed_files == { client.files[n] : n \in 1..Len(client.files) }

\* handleFiles with one valid file: state.files.push({ file, thumbnail, ... })
PushFile(f) ==
  /\ client.pc # "off"
  /\ f \notin Listed_files
  /\ client' = [ client EXCEPT !.files = Append(@, f), !.toast = AddedToast ]
  /\ UNCHANGED <<app, videoFormat, webVars, desktopVars, est, image, batch, store, imageState, probe, cmd, bar, job, sweep, worker>>

\* removeFile(index): state.files.splice(index, 1)
SpliceFile(index) ==
  /\ client.pc # "off"
  /\ index \in 1..Len(client.files)
  /\ client' = [ client EXCEPT !.files =
                   [ n \in 1..(Len(@) - 1) |-> IF n < index THEN @[n] ELSE @[n + 1] ] ]
  /\ UNCHANGED <<app, videoFormat, webVars, desktopVars, est, image, batch, store, imageState, probe, cmd, bar, job, sweep, worker>>

\* clearAllFiles(): state.files = []; state.results = []
ClearFiles ==
  /\ client.pc # "off"
  /\ Len(client.files) > 0 \/ Len(client.results) > 0
  /\ client' = [ client EXCEPT !.files = << >>, !.results = << >> ]
  /\ UNCHANGED <<app, videoFormat, webVars, desktopVars, est, image, batch, store, imageState, probe, cmd, bar, job, sweep, worker>>

\* handleCompress() up to `await uploadFiles()`: the guard, the flag, and the
\* form data built from state.files
CompressClicked ==
  /\ client.pc = "idle"
  /\ Len(client.files) > 0 /\ ~client.isCompressing
  /\ client' = [ client EXCEPT !.pc = "uploading", !.sent = client.files,
                               !.isCompressing = TRUE, !.btnDisabled = TRUE ]
  /\ UNCHANGED <<app, videoFormat, webVars, desktopVars, est, image, batch, store, imageState, probe, cmd, bar, job, sweep, worker>>

\* catch (error) { showToast(error.message ...) } finally { ... }
CatchCompress(message) ==
  [ client EXCEPT !.pc = "idle", !.sent = << >>, !.toast = message,
                  !.isCompressing = FALSE, !.btnDisabled = FALSE ]

\* /api/upload answered: compressFiles(uploadResult.files), or the throw of
\* uploadFiles
UploadAnswered(ok) ==
  /\ client.pc = "uploading"
  /\ client' = IF ok THEN [ client EXCEPT !.pc = "compressing" ]
               ELSE CatchCompress(UploadFailedToast)
  /\ UNCHANGED <<app, videoFormat, webVars, desktopVars, est, image, batch, store, imageState, probe, cmd, bar, job, sweep, worker>>

\* /api/compress answered with one result per uploaded file, in their order:
\* state.results = results.map((result, index) => ({ ...result,
\* originalThumbnail: state.files[index].thumbnail })); state.files[index] is
\* undefined past the end of the list as it is now.
CompressAnswered(ok) ==
  /\ client.pc = "compressing"
  /\ client' =
       IF ~ok THEN CatchCompress(CompressionFailedToast)
       ELSE IF Len(client.sent) > Len(client.files) THEN CatchCompress(UndefinedThumbnail)
       ELSE [ client EXCEPT
                !.pc = "idle", !.sent = << >>, !.toast = CompleteToast,
                !.results = [ index \in 1..Len(client.sent) |->
                                [ file |-> client.sent[index],
                                  originalThumbnail |-> client.files[index] ] ],
                !.isCompressing = FALSE, !.btnDisabled = FALSE ]
  /\ UNCHANGED <<app, videoFormat, webVars, desktopVars, est, image, batch, store, imageState, probe, cmd, bar, job, sweep, worker>>

NextClient ==
  \/ \E f \in Images : PushFile(f)
  \/ \E index \in Images : SpliceFile(index)
  \/ ClearFiles
  \/ CompressClicked
  \/ \E ok \in BOOLEAN : UploadAnswered(ok)
  \/ \E ok \in BOOLEAN : CompressAnswered(ok)

SpecClient == InitClient /\ [][NextClient]_vars

\* ------------------------------------------------------------------ worker
\* self.onmessage of the FFmpeg worker: every request carries an id and a
\* type; LOAD is the one handler with awaits, every other handler runs to
\* its end within the turn of its message.

\* request messages one worker receives
MaxMsgs == 3
MsgIds == 1..MaxMsgs

\* FFMessageType, as far as the switch has a case for it
Handlers == {"LOAD", "EXEC", "WRITE_FILE", "READ_FILE", "DELETE_FILE"}
\* the types a message can carry: those, and one the switch does not know
MsgTypes == Handlers \cup {"PROGRESS"}

ERROR_NOT_LOADED == "ffmpeg is not loaded, call await ffmpeg.load() first"
ERROR_UNKNOWN_MESSAGE_TYPE == "unknown message type"
ERROR_IMPORT_FAILURE == "failed to import ffmpeg-core.js"
HandlerError == "ErrnoError: FS error"
CoreTypeError == "TypeError: Cannot read properties of undefined"

\* a message not yet received
NoMsg == [ type |-> "", pc |-> "none", loaded |-> FALSE, ran |-> FALSE,
           early |-> FALSE, threw |-> FALSE, data |-> "" ]

InitWorker ==
  /\ app = "worker"
  /\ AtRest
  /\ est = NoEstimate
  /\ image = NoImage
  /\ batch = NoBatch
  /\ store = NoStore
  /\ imageState = NoImageState
  /\ probe = NoProbe
  /\ cmd = NoCommand
  /\ bar = NoProgress
  /\ job = NoJob
  /\ sweep = NoSweep
  /\ client = NoClient
  /\ worker = [ NoWorker EXCEPT !.on = TRUE,
                                !.msgs = [ id \in MsgIds |-> NoMsg ],
                                !.posted = [ id \in MsgIds |-> << >> ] ]

\* A guard that lets every message through to the switch.
GuardAbsent(type, ffmpeg) == FALSE

\* if (type !== FFMessageType.LOAD && !ffmpeg) throw ERROR_NOT_LOADED
ThrowsNotLoaded(type, ffmpeg) == type # "LOAD" /\ ~ffmpeg

\* self.postMessage({ id, type, data })
Response(id, type, data) == [ id |-> id, type |-> type, data |-> data ]

\* catch (e) { self.postMessage({ id, type: ERROR, data: e.toString() }); return }
CatchMessage(id, e) == Response(id, "ERROR", e)

\* What a handler other than load returns.
HandlerData(type) == IF type = "EXEC" THEN "ret" ELSE IF type = "READ_FILE" THEN "bytes" ELSE "true"

\* The next message is received; it has the smallest id not yet used.
NextId == CHOOSE id \in MsgIds :
            worker.msgs[id].pc = "none" /\ \A o \in MsgIds : worker.msgs[o].pc = "none" => id <= o

\* onmessage with a LOAD: load(_data) runs up to its await, `first` taken
OnLoadMessage ==
  /\ worker.on
  /\ \E id \in MsgIds : worker.msgs[id].pc = "none"
  /\ worker' = [ worker EXCEPT
       !.msgs[NextId] = [ NoMsg EXCEPT !.type = "LOAD", !.pc = "loading",
                                       !.loaded = worker.ffmpeg, !.ran = TRUE,
                                       !.data = IF worker.ffmpeg THEN "false" ELSE "true" ] ]
  /\ UNCHANGED <<app, videoFormat, webVars, desktopVars, est, image, batch, store, imageState, probe, cmd, bar, job, sweep, client>>

\* ffmpeg = await self.createFFmpegCore(...) resolved: load returns first
LoadResolves(id) ==
  /\ worker.on
  /\ worker.msgs[id].pc = "loading"
  /\ worker' = [ worker EXCEPT
       !.ffmpeg = TRUE, !.succeeded = TRUE,
       !.msgs[id].pc = "done",
       !.posted[id] = Append(@, Response(id, "LOAD", worker.msgs[id].data)) ]
  /\ UNCHANGED <<app, videoFormat, webVars, desktopVars, est, image, batch, store, imageState, probe, cmd, bar, job, sweep, client>>

\* the import or createFFmpegCore rejected: load throws into the catch
LoadRejects(id) ==
  /\ worker.on
  /\ worker.msgs[id].pc = "loading"
  /\ worker' = [ worker EXCEPT
       !.msgs[id].pc = "done", !.msgs[id].threw = TRUE,
       !.posted[id] = Append(@, CatchMessage(id, ERROR_IMPORT_FAILURE)) ]
  /\ UNCHANGED <<app, videoFormat, webVars, desktopVars, est, image, batch, store, imageState, probe, cmd, bar, job, sweep, client>>

\* onmessage with any other type: the guard, the switch, the handler (which
\* returns its result or throws; without a core every handler throws at
\* `ffmpeg.`), and the one postMessage.
OnMessage(type, throws) ==
  /\ worker.on
  /\ type # "LOAD"
  /\ \E id \in MsgIds : worker.msgs[id].pc = "none"
  /\ LET id == NextId
         received == [ NoMsg EXCEPT !.type = type, !.pc = "done", !.loaded = worker.ffmpeg ]
     IN worker' =
          IF ThrowsNotLoaded(type, worker.ffmpeg)
            THEN [ worker EXCEPT !.msgs[id] = received,
                                 !.posted[id] = Append(@, CatchMessage(id, ERROR_NOT_LOADED)) ]
          ELSE IF type \notin Handlers
            THEN [ worker EXCEPT !.msgs[id] = received,
                                 !.posted[id] = Append(@, CatchMessage(id, ERROR_UNKNOWN_MESSAGE_TYPE)) ]
          ELSE IF ~worker.ffmpeg
            THEN [ worker EXCEPT
                     !.msgs[id] = [ received EXCEPT !.ran = TRUE, !.threw = TRUE,
                                                    !.early = ~worker.succeeded ],
                     !.posted[id] = Append(@, CatchMessage(id, CoreTypeError)) ]
          ELSE IF throws
            THEN [ worker EXCEPT
                     !.msgs[id] = [ received EXCEPT !.ran = TRUE, !.threw = TRUE,
                                                    !.early = ~worker.succeeded ],
                     !.posted[id] = Append(@, CatchMessage(id, HandlerError)) ]
          ELSE [ worker EXCEPT
                   !.msgs[id] = [ received EXCEPT !.ran = TRUE,
                                                  !.early = ~worker.succeeded,
                                                  !.data = HandlerData(type) ],
                   !.posted[id] = Append(@, Response(id, type, HandlerData(type))) ]
  /\ UNCHANGED <<app, videoFormat, webVars, desktopVars, est, image, batch, store, imageState, probe, cmd, bar, job, sweep, client>>

NextWorker ==
  \/ OnLoadMessage
  \/ \E id \in MsgIds : LoadResolves(id)
  \/ \E id \in MsgIds : LoadRejects(id)
  \/ \E type \in MsgTypes, throws \in BOOLEAN : OnMessage(type, throws)

SpecWorker == InitWorker /\ [][NextWorker]_vars

\* ------------------------------------------------------------ the programs

Init ==
  /\ app \in {"web", "desktop"}
  /\ videoFormat \in Formats
  /\ InitWeb
  /\ InitDesktop
  /\ est = NoEstimate
  /\ worker = NoWorker
  /\ client = NoClient
  /\ sweep = NoSweep
  /\ job = NoJob
  /\ bar = NoProgress
  /\ cmd = NoCommand
  /\ probe = NoProbe
  /\ imageState = NoImageState
  /\ store = NoStore
  /\ image = NoImage
  /\ batch = NoBatch

Next ==
  \/ \E f \in Files : HandleVideoFile(f)
  \/ ClearVideo
  \/ StartVideoCompression
  \/ \E r \in Reqs : LoadFFmpegDone(r)
  \/ \E r \in Reqs : LoadFFmpegFail(r)
  \/ \E r \in Reqs : ReadFileDone(r)
  \/ \E r \in Reqs : ReadFileFail(r)
  \/ \E r \in Reqs : WriteFile1Done(r)
  \/ \E r \in Reqs : GetVideoDurationDone(r)
  \/ \E r \in Reqs : ExecSucceeds(r)
  \/ \E r \in Reqs : ExecReturnsNonZero(r)
  \/ \E r \in Reqs : ReadOutput1(r)
  \/ \E r \in Reqs : WriteFile2Done(r)
  \/ \E r \in Reqs : ReadOutput2(r)
  \/ \E r \in Reqs : DeleteInputDone(r)
  \/ \E r \in Reqs : DeleteOutputDone(r)
  \/ \E r \in Reqs : FFmpegRejects(r)
  \/ CancelVideoCompression
  \/ \E f \in Files : AddVideoFile(f)
  \/ DesktopClearVideo
  \/ CompressVideo
  \/ \E k \in Reqs : SelectSavePathDone(k)
  \/ \E k \in Reqs : ProbeFails(k)
  \/ \E k \in Reqs : ProbeDone(k)
  \/ \E k \in Reqs : ProcessExits(k)
  \/ \E k \in Reqs : OnEnd(k)
  \/ \E k \in Reqs : OnError(k)
  \/ CancelVideo

Spec == Init /\ [][Next]_vars

\* ------------------------------------------------------------- properties

AttemptEnded == {"succeeded", "failed", "cancelled"}

\* C1: one invocation of startVideoCompression calls ffmpeg.exec at most twice,
\* whatever the file, the target, the format and the sizes the encoder produces.
C1_AtMostTwoExecs == \A r \in Reqs : req[r].execs <= 2

\* A request that returned after its second exec.
C1_TwoExecsDone == \E r \in Reqs : req[r].pc = "done" /\ req[r].execs = 2

\* Attempt 1 of q succeeded and its output was read and found within 1.05 x target.
WithinTolerance(q) ==
  /\ q.att1 = "succeeded"
  /\ q.size1 > 0
  /\ ~Overshoots(q.size1, TargetSizeBytes(q.targetSizeMB))

C3_PreCheckOnEveryEntryPoint ==
  /\ \A r \in Reqs :
       (req[r].source # None /\ AlreadySmall(req[r].source, req[r].targetSizeMB)) =>
         req[r].execs = 0 /\ (req[r].pc = "done" => req[r].outcome = "already")
  /\ \A k \in Reqs :
       (call[k].checked # None /\ AlreadySmall(call[k].checked, call[k].targetSizeMB)) =>
         call[k].runs = 0 /\ (call[k].pc = "done" => call[k].outcome = "already")
  /\ \A k \in Reqs :
       (call[k].filePath # None /\ AlreadySmall(call[k].filePath, call[k].targetSizeMB)) =>
         call[k].runs = 0

\* C4: a request cancelled while an attempt was running ends with the
\* cancelled outcome, and no attempt is started after the cancel.
C4_CancelDuringAttemptIsCancelled ==
  /\ \A r \in Reqs :
       (req[r].pc = "done" /\ req[r].cancelAt \in {"exec1", "exec2"}) =>
         /\ req[r].outcome = "cancelled"
         /\ req[r].cancelAt = "exec1" => req[r].att2 = "none"
  /\ \A k \in Reqs :
       (call[k].pc = "done" /\ call[k].cancelAt = "running") =>
         call[k].outcome = "cancelled" /\ call[k].runs = 1

\* C5: a request cancelled after its attempt had succeeded internally, but
\* before the result was delivered, ends cancelled.
C5_CancelBeforeDeliveryIsCancelled ==
  /\ \A r \in Reqs :
       ( /\ req[r].pc = "done"
         /\ req[r].cancelAt \in {"readout1", "readout2", "cleanup1", "cleanup2"}
         /\ req[r].att1 = "succeeded" /\ req[r].att2 \in {"none", "succeeded"} ) =>
         req[r].outcome = "cancelled"
  /\ \A k \in Reqs :
       ( /\ call[k].pc = "done"
         /\ call[k].cancelAt = "exited" ) =>
         call[k].outcome = "cancelled"

\* No invocation of either application is suspended.
NoneInFlight ==
  /\ \A r \in Reqs : ~InFlight(req[r])
  /\ \A k \in Reqs : call[k].pc \in {"idle", "done", "retired"}

\* C6: a cancel never changes what a returned request delivered, and a cancel
\* with no request in flight changes nothing of videoState, the virtual
\* filesystem, the display, the renderer state, activeProcesses or the disk.
C6_LateCancelIsNoOp ==
  [][ (CancelVideoCompression \/ CancelVideo) =>
        /\ \A r \in Reqs : req[r].pc = "done" =>
             /\ req'[r].pc = "done"
             /\ req'[r].outcome = req[r].outcome
             /\ req'[r].message = req[r].message
        /\ \A k \in Reqs : call[k].pc = "done" =>
             /\ call'[k].pc = "done"
             /\ call'[k].outcome = call[k].outcome
             /\ call'[k].message = call[k].message
        /\ NoneInFlight =>
             UNCHANGED <<videoState, fs, ui, loads, state, activeProcesses, disk>> ]_vars

\* A cancel arrived after a web request had shown its result while the engine
\* was still loaded.
C6_CancelAfterSuccess ==
  \E r \in Reqs :
    req[r].late /\ req[r].outcome = "success" /\ videoState.ffmpeg # 0 /\ NoneInFlight

\* C7: compress-video resolves cancelled exactly when cancel-video killed the
\* running process; any other abnormal end resolves as an error with a message.
C7_CancelledIffRequestedKill ==
  \A k \in Reqs :
    (call[k].pc = "done" /\ call[k].runs > 0) =>
      /\ call[k].outcome = "cancelled" <=> call[k].killed
      /\ call[k].outcome = "error" => call[k].message # NoMessage

\* C8: what a cancelled request wrote is not left as a result: the web
\* compressedBlob holds none of its data, the desktop output path none of its file.
C8_NoOutputOfCancelledRequest ==
  /\ \A r \in Reqs :
       (req[r].pc = "done" /\ req[r].cancelAt # "none") =>
         videoState.compressedBlob.req # r
  /\ \A k \in Reqs :
       (call[k].pc = "done" /\ call[k].outcome = "cancelled") =>
         disk[call[k].outputPath].job # k

\* C9: attempt 2 is started only after attempt 1 has ended, and the two
\* attempts of a request are never running together.
C9_AttemptsInSequence ==
  \A r \in Reqs :
    /\ req[r].att2 # "none" => req[r].att1 \in AttemptEnded
    /\ ~(req[r].att1 = "running" /\ req[r].att2 = "running")

\* The second attempt of a request is running.
C9_SecondAttemptRunning ==
  \E r \in Reqs : req[r].att2 = "running" /\ req[r].pc = "exec2"

\* C10: a failed attempt 1 is followed by no attempt 2 and a failed request; a
\* failed attempt 2 by a failed request; in no case by a third attempt.
C10_FailureIsNotRetried ==
  /\ \A r \in Reqs :
       /\ req[r].execs <= 2
       /\ req[r].att1 = "failed" =>
            req[r].att2 = "none" /\ (req[r].pc = "done" => req[r].outcome = "error")
       /\ (req[r].att2 = "failed" /\ req[r].pc = "done") => req[r].outcome = "error"
  /\ \A k \in Reqs :
       /\ call[k].runs <= 1
       /\ (call[k].pc = "done" /\ call[k].message # NoMessage) => call[k].outcome = "error"

\* C11: the first-pass video bitrate is at least 100 kbps for every duration,
\* target and audio budget, and for a fixed duration and target it does not
\* rise when the audio budget rises.
C11_EstimateFloorAndMonotone ==
  /\ [](est.pc \in {"first", "second"} => est.videoBitrate >= 100)
  /\ [][ ( /\ est.pc = "first" /\ est'.pc = "first"
           /\ est'.targetSizeMB = est.targetSizeMB /\ est'.duration = est.duration
           /\ est'.audioBitrate > est.audioBitrate ) =>
         est'.videoBitrate <= est.videoBitrate ]_vars

\* An estimate above the floor after the audio budget was raised.
C11_RaisedAudioAboveFloor ==
  est.pc = "first" /\ est.audioBitrate = 128 /\ est.videoBitrate > 100

\* The inputs of the worked example: 120 s, 16 MB, 128 kbps of audio.
ScenarioA ==
  /\ est.pc \in {"first", "second"}
  /\ est.duration = 120 /\ est.targetSizeMB = 16 /\ est.audioBitrate = 128

\* C12 (as the code computes it): for 120 s, 16 MB and 128 kbps of audio the
\* first-pass video bitrate is floor(16 * 1024 * 1024 * 8 / 120 / 1000 - 128)
\* = 990 kbps.
C12_ScenarioAIs990 == ScenarioA => est.videoBitrate = 990

\* C12 as stated: for 120 s, 16 MB and 128 kbps of audio the first-pass video
\* bitrate is 964 kbps.
C12_ScenarioAIs964 == ScenarioA => est.videoBitrate = 964

\* The worked example has been estimated.
C12_ScenarioAEstimated == ScenarioA /\ est.pc = "first"

\* C13: the second-pass bitrate is max(50, floor(b1 * (target / size) * 0.9)):
\* it is at least 50; above 50 it is the largest whole number not above
\* b1 * 0.9 * target / size; at 50 that product is below 51. A first output
\* of 5/4 of the target (20 MB against 16 MB) scales the bitrate by 0.72.
C13_SecondPassBitrate ==
  est.pc = "second" =>
    LET b1 == est.videoBitrate
        target == TargetSizeBytes(est.targetSizeMB)
        b2 == est.secondBitrate
    IN /\ b2 >= 50
       /\ b2 > 50 => /\ 10 * est.size * b2 <= 9 * b1 * target
                     /\ 9 * b1 * target < 10 * est.size * (b2 + 1)
       /\ b2 = 50 => 9 * b1 * target < 10 * est.size * 51
       /\ 4 * est.size = 5 * target => b2 = Max(50, (72 * b1) \div 100)

\* The second pass of the worked example: 20 MB against 16 MB at 990 kbps.
C13_TwentyAgainstSixteen ==
  /\ est.pc = "second" /\ est.targetSizeMB = 16 /\ 4 * est.size = 5 * 16 * 1024
  /\ est.videoBitrate = 990 /\ est.secondBitrate = 712

\* A png or gif was asked of an image path with a quality in 1..100.
PaletteRequest ==
  /\ image.pc = "done" /\ image.path \in {"server", "desktop"}
  /\ image.did.format \in {"png", "gif"}
  /\ image.quality \in Qualities

\* C14: for png and gif output and every quality q in 1..100, on the server
\* and on the desktop, the encoder works with a palette of
\* max(16, floor(256 * q / 100)) colours: between 16 and 256, and 128 at q = 50.
C14_PaletteFollowsQuality ==
  PaletteRequest =>
    /\ image.did.success
    /\ Colours(image.did.options) = Max(16, (256 * image.quality) \div 100)
    /\ Colours(image.did.options) \in 16..256
    /\ image.quality = 50 => Colours(image.did.options) = 128

\* A request named an output format or a quality tier that does not exist,
\* and has been dealt with.
UnknownRequested ==
  /\ image.pc \in {"done", "thrown"}
  /\ \/ /\ image.path \in {"server", "desktop"}
        /\ image.outputFormat \notin {"", "original"} \cup ImageFormats
     \/ /\ image.path = "video"
        /\ image.tier \notin {""} \cup Tiers

\* C15: a request for an unknown output format or an unknown video quality
\* tier ends in an error outcome (whatever the error is called): no format,
\* extension, option set or tier is put in its place and nothing is encoded.
C15_UnknownIsAnError ==
  UnknownRequested =>
    /\ image.pc = "done"
    /\ ~image.did.success
    /\ image.did.error # ""
    /\ image.did.encoder = "none"
    /\ image.did.written = "none"

\* An image request with a quality outside 1..100 or an output format outside
\* the supported ones has been dealt with.
InvalidSettings ==
  /\ image.pc = "done" /\ image.path \in {"server", "desktop"}
  /\ \/ image.quality \notin Qualities
     \/ image.outputFormat \notin {"", "original"} \cup ImageFormats

\* C16: an image request whose quality is outside [1,100] or whose output
\* format is not a supported one fails with an error before anything is
\* encoded.
C16_InvalidSettingsFailFast ==
  InvalidSettings =>
    /\ ~image.did.success
    /\ image.did.error # ""
    /\ image.did.written = "none"

\* C17: whichever files of a batch fail and whichever succeed, and in whatever
\* order they finish, the answer holds one result per file in the order of
\* the files; a file that failed is reported with success false and an error,
\* every other file with its own original and compressed size.
C17_OneResultPerFile ==
  batch.pc = "responded" =>
    /\ batch.response.status = 200
    /\ Len(batch.response.results) = Len(batch.files)
    /\ \A i \in 1..Len(batch.files) :
         LET r == batch.response.results[i]
         IN /\ r.settled /\ r.id = batch.files[i].id
            /\ batch.at[i] = "settled"
            /\ \/ /\ ~r.success /\ r.error # ""
               \/ /\ r.success
                  /\ r.originalSize = batch.files[i].size
                  /\ [ id |-> r.id, size |-> r.compressedSize ] \in batch.compressed

\* A batch answered with a failed file before a file that succeeded.
C17_FailureBesideSuccess ==
  /\ batch.pc = "responded" /\ Len(batch.files) >= 2
  /\ batch.response.status = 200
  /\ ~batch.response.results[1].success
  /\ batch.response.results[2].success

\* The kind of value a compress-video request was answered with: its success
\* and cancelled flags and whether it carries an error message.
ResultKind(c) ==
  [ success |-> c.outcome = "success", cancelled |-> c.outcome = "cancelled",
    error |-> c.message # NoMessage ]

\* The request was answered because ffprobe failed: no encoder was run for it.
ProbeFailed(c) == c.pc = "done" /\ c.runs = 0 /\ c.message = ProbeError

\* A request answered because the encoder exited with an error.
EncodeFailure ==
  [ IdleCall EXCEPT !.pc = "done", !.runs = 1, !.outcome = "error",
                    !.message = ExitedWithCode ]

\* C18: a request that failed at the probe is answered with a value of another
\* kind than any request that failed at the encode.
C18_ProbeFailureIsDistinct ==
  \A k \in Reqs :
    ProbeFailed(call[k]) => ResultKind(call[k]) # ResultKind(EncodeFailure)

\* C19: under every entry point, no file in uploads or compressed is older
\* than 30 minutes.
C19_NoFileOlderThanThirtyMinutes ==
  \A file \in store.files : store.now - file.mtime <= 30

\* C20: the file list of the web client never holds more than 20 entries, a
\* handleFiles that would make it longer leaves it as it was, and the server
\* never compresses more than 20 files in one batch.
C20_AtMostTwentyFiles ==
  /\ [](imageState.files <= 20 /\ imageState.compressed <= 20)
  /\ [][ (imageState'.op = "handleFiles" /\ imageState'.toast = MaxFilesToast) =>
         imageState'.files = imageState.files ]_vars

\* C21: a request of the web controller one of whose execs returned a
\* non-zero code ends as failed with a message; in particular the output of
\* attempt 1 is never shown as the result after attempt 2 failed.
C21_NonZeroExitIsFailure ==
  \A r \in Reqs :
    (req[r].pc = "done" /\ (req[r].att1 = "failed" \/ req[r].att2 = "failed")) =>
      /\ req[r].outcome = "error"
      /\ req[r].message # "none"
      /\ ~(req[r].att2 = "failed" /\ videoState.compressedBlob # NoBlob
           /\ videoState.compressedBlob.req = r /\ videoState.compressedBlob.att = 1
           /\ ui.result)

\* C22: whenever a second pass is started (the first output is above 1.05 x
\* target and the first bitrate is at least 100), its video bitrate is at
\* least 50 and strictly below the first one.
C22_SecondPassIsLower ==
  (est.pc = "second" /\ Overshoots(est.size, TargetSizeBytes(est.targetSizeMB))
                     /\ est.videoBitrate >= 100) =>
    /\ est.secondBitrate < est.videoBitrate
    /\ est.secondBitrate >= 50

\* A second pass above the floor of 50 and one at the floor.
C22_SecondPassAboveFloor ==
  /\ est.pc = "second" /\ Overshoots(est.size, TargetSizeBytes(est.targetSizeMB))
  /\ est.videoBitrate > 100
  /\ est.secondBitrate > 50

\* The source gave no usable duration: none, zero, or not a finite number.
NoUsableDuration ==
  probe.reported.what \in {"error", "N/A", "Infinity"} \/ probe.reported.seconds = 0

\* C23: on the web and on the desktop, when the source gives no usable
\* duration the bitrate is estimated from 60 seconds, and the bitrate handed
\* to the encoder is always a whole number of at least 100.
C23_FallbackDuration ==
  probe.pc = "estimated" =>
    /\ NoUsableDuration => probe.duration = Num(60)
    /\ IsFinite(probe.videoBitrate)
    /\ probe.videoBitrate.value >= 100

\* C24: for mp4 and for webm, on the web and on the desktop, the command that
\* is run scales down to a height of 480 when target / source is below 0.15,
\* to 720 when it is from 0.15 to below 0.35, and not at all from 0.35 on.
C24_ScaleFilterByRatio ==
  cmd.pc = "built" =>
    cmd.command.scale =
      (IF 100 * cmd.targetSizeMB < 15 * cmd.fileSizeMB THEN "scale=-2:480"
       ELSE IF 100 * cmd.targetSizeMB < 35 * cmd.fileSizeMB THEN "scale=-2:720"
       ELSE "none")

\* C25: a tier resolves to the same preset and CRF wherever a video profile
\* is resolved, on the web as on the desktop, and the CRF rises from high to
\* medium to low.
C25_OneLookupTable ==
  cmd.pc = "built" =>
    /\ cmd.profile = WebPresetMap(cmd.tier)
    /\ cmd.profile = presetMap(cmd.tier)
    /\ WebPresetMap("high").crf < WebPresetMap("medium").crf
    /\ WebPresetMap("medium").crf < WebPresetMap("low").crf
    /\ presetMap("high").crf < presetMap("medium").crf
    /\ presetMap("medium").crf < presetMap("low").crf

\* The server has dealt with a request for this format with a quality in 1..100.
ServerResolved(format) ==
  /\ image.pc = "done" /\ image.path = "server"
  /\ image.did.format = format
  /\ image.quality \in Qualities

\* C26: for jpeg output and every quality q in 1..100 the encoder is given q
\* as its quality, and chroma subsampling 4:4:4 when q > 90 and 4:2:0 otherwise.
C26_JpegOptions ==
  ServerResolved("jpeg") =>
    /\ image.did.success /\ image.did.encoder = "jpeg"
    /\ image.did.options.quality = image.quality
    /\ image.did.options.chromaSubsampling =
         (IF image.quality > 90 THEN "4:4:4" ELSE "4:2:0")

\* jpeg at quality 90: still 4:2:0.
C26_JpegAtNinety ==
  /\ ServerResolved("jpeg") /\ image.quality = 90
  /\ image.did.options.chromaSubsampling = "4:2:0"

\* C27: for webp output and every quality q in 1..100 the encoder is given q
\* as its quality, and the near-lossless flag exactly when q > 95.
C27_WebpOptions ==
  ServerResolved("webp") =>
    /\ image.did.success /\ image.did.encoder = "webp"
    /\ image.did.options.quality = image.quality
    /\ image.did.options.nearLossless = (image.quality > 95)

\* webp at quality 95: not yet near-lossless.
C27_WebpAtNinetyFive ==
  /\ ServerResolved("webp") /\ image.quality = 95
  /\ ~image.did.options.nearLossless

\* C28: an attempt never writes to a location where the output of another
\* attempt lies, be it the other attempt of the same request or an attempt of
\* another request.
C28_OutputLocationIsOwned ==
  [][ \A f \in Formats :
        (fs[f] # NoBlob /\ fs'[f] # NoBlob /\ fs'[f] # fs[f]) =>
          (fs'[f].req = fs[f].req /\ fs'[f].att = fs[f].att) ]_vars

\* C29: over the progress events of one video request, in whatever order and
\* however often they come and also when attempt 2 begins, the percentage
\* shown never goes down: it is the largest value delivered so far.
C29_ProgressNeverDecreases ==
  /\ [](bar.pc # "off" => bar.percent = bar.seen)
  /\ [][bar'.percent >= bar.percent]_vars

\* C30: at no time during a batch are more compressImage calls in flight than
\* the concurrency limit the request named.
C30_ConcurrencyIsBounded ==
  batch.pc = "running" => Cardinality(InFlight_compressImage) <= batch.limit

\* The web requests suspended at an await.
WebInFlight == { r \in Reqs : InFlight(req[r]) }

\* C31: while a web request runs, from its entry to its finally block,
\* isCompressing is true, so no second request is in flight beside it; a
\* cancelled request that returns late does not clear the flag of a newer one.
C31_FlagCoversRunningRequest ==
  /\ WebInFlight # {} => videoState.isCompressing
  /\ Cardinality(WebInFlight) <= 1

\* The desktop invocations of compressVideo that have passed the isCompressing
\* guard and have not returned.
PassedGuard == { k \in Reqs : call[k].pc \in {"dialog", "ipc", "stuck"} }

\* C32: in the desktop renderer at most one compression has passed the
\* isCompressing guard and not yet returned, and no entry of activeProcesses
\* that holds a running process is overwritten with another process.
C32_OneDesktopCompression ==
  /\ [](Cardinality(PassedGuard) <= 1)
  /\ [][ \A f \in Files :
           (activeProcesses[f] # 0 /\ call[activeProcesses[f]].proc = "running") =>
             activeProcesses'[f] \in {0, activeProcesses[f]} ]_vars

\* C33: a cancel from the renderer while a desktop compression is running
\* kills the running process, whatever file the renderer has selected or
\* cleared since the compression started, and a request whose process was
\* killed is answered as cancelled.
C33_CancelReachesRunningProcess ==
  /\ [][ CancelVideo =>
           \A k \in Reqs : call[k].proc = "running" =>
             call'[k].proc = "killed" /\ call'[k].killed ]_vars
  /\ [](\A k \in Reqs : (call[k].pc = "done" /\ call[k].killed) =>
          call[k].outcome = "cancelled")

\* C34: every compress-video request is in the end answered with success,
\* cancelled or error, whatever its options and whether or not the output
\* can be stat'ed, and with the answer the renderer's isCompressing flag is
\* false and the compress button enabled again.
C34_RequestIsAnswered ==
  (job.pc = "probe") ~>
    ( /\ job.pc = "answered"
      /\ job.result \in {"success", "cancelled", "error"}
      /\ ~job.isCompressing /\ ~job.btnDisabled )

\* C35: the result a web request shows belongs to the file whose bytes it
\* encoded: the file selected when the result is shown (whose size is
\* displayed as the original size) and the file in the download name are
\* that file and the blob is the request's own; and while a result is on
\* display the blob offered for download is never one of a request that
\* ended in an error or was cancelled.
C35_ResultBelongsToItsSource ==
  /\ [][ \A r \in Reqs :
           (req[r].pc # "done" /\ req'[r].pc = "done" /\ req'[r].outcome = "success") =>
             /\ videoState'.file = req[r].fileData
             /\ videoState'.compressedFileName = <<req[r].fileData, req[r].outputFormat>>
             /\ videoState'.compressedBlob.req = r ]_vars
  /\ [](\A r \in Reqs :
          (req[r].pc = "done" /\ req[r].outcome = "error") =>
            ~(ui.result /\ videoState.compressedBlob.req = r))

\* The ids of the list of a cleanup request.
Listed == { sweep.fileIds[n] : n \in 1..Len(sweep.fileIds) }

\* C36: DELETE /api/cleanup removes exactly the files of uploads and of
\* compressed that belong to an id of its list, whatever ids the list holds:
\* every other file is still there when it has answered.
C36_CleanupDeletesListedOnly ==
  sweep.pc = "responded" =>
    sweep.files = { file \in sweep.before : file.id \notin Listed }

\* The sum of a field over the results of the files that were compressed.
SumOfSucceeded(results, field) ==
  LET sum[n \in 0..Len(results)] ==
        IF n = 0 THEN 0
        ELSE sum[n - 1] + (IF results[n].success THEN results[n][field] ELSE 0)
  IN sum[Len(results)]

\* C37: in every answer of /api/compress the two totals are numbers, the sums
\* of the original and of the compressed sizes of the files that were
\* compressed, also when some files of the batch failed.
C37_TotalsAreSums ==
  (batch.pc = "responded" /\ batch.response.status = 200) =>
    /\ batch.response.totalOriginalSize =
         Num(SumOfSucceeded(batch.response.results, "originalSize"))
    /\ batch.response.totalCompressedSize =
         Num(SumOfSucceeded(batch.response.results, "compressedSize"))

\* C38: every stored result of the image client carries the thumbnail of the
\* file it was produced from, handleCompress never ends in an exception of
\* its own making, and once it has returned isCompressing is false and the
\* button enabled, whatever was added to or removed from the list meanwhile.
C38_ResultKeepsItsThumbnail ==
  /\ \A n \in 1..Len(client.results) :
       client.results[n].originalThumbnail = client.results[n].file
  /\ client.toast # UndefinedThumbnail
  /\ client.pc = "idle" => (~client.isCompressing /\ ~client.btnDisabled)

\* C39: for every request the worker has dealt with it has posted exactly one
\* response, with the request's id: of type ERROR when the type is not LOAD
\* and no core was loaded, when the type is unknown, or when the handler
\* threw, and else of the request's type with the handler's result; before
\* that it has posted none; and no handler other than load has run before a
\* LOAD succeeded.
C39_OneResponsePerRequest ==
  \A id \in MsgIds :
    LET m == worker.msgs[id]
        posted == worker.posted[id]
    IN /\ m.pc # "done" => posted = << >>
       /\ m.pc = "done" =>
            /\ Len(posted) = 1
            /\ posted[1].id = id
            /\ posted[1].type = "ERROR" <=>
                 \/ m.type # "LOAD" /\ ~m.loaded
                 \/ m.type \notin Handlers
                 \/ m.threw
            /\ posted[1].type # "ERROR" =>
                 posted[1].type = m.type /\ posted[1].data = m.data
       /\ (m.ran /\ m.type # "LOAD") => ~m.early

\* An EXEC before the core was loaded was answered with an error, a LOAD
\* succeeded, and an EXEC after it was answered with its result.
C39_ErrorThenLoadThenResult ==
  /\ worker.msgs[1].type = "EXEC" /\ worker.posted[1] = <<CatchMessage(1, ERROR_NOT_LOADED)>>
  /\ worker.msgs[2].type = "LOAD" /\ worker.posted[2] = <<Response(2, "LOAD", "true")>>
  /\ worker.msgs[3].type = "EXEC" /\ worker.posted[3] = <<Response(3, "EXEC", "ret")>>
====
